---- MODULE Spec2Model ----
(***************************************************************************)
(* A model of the passes of the KiCad to Circuit JSON converter:            *)
(* CollectNetsStage, processFootprint with its pads and ports,             *)
(* CollectSourceTracesStage, CollectLibrarySymbolsStage,                   *)
(* CollectGraphicsStage, CollectViasStage and CollectZonesStage, with the  *)
(* output store (ctx.db) and the cross-reference tables of the shared      *)
(* converter context, and of rotationToDirection and convertArcToPoints.   *)
(*                                                                         *)
(* Conventions.  A JavaScript value that may be undefined is modelled in   *)
(* the type of its defined values: an absent string is the string          *)
(* Undefined, an absent number is NoNum.  A table of the store is the      *)
(* sequence of its records in insertion order.  Fields of a record that no *)
(* operation of this model reads back (names, ftype, font) are left out of *)
(* the record.  Numbers are exact: a coordinate is an integer number of    *)
(* grid units, Math.cos and Math.sin are taken at whole quarter turns,     *)
(* where they are 0, 1 and -1, and the rounding of IEEE doubles is not     *)
(* modelled.                                                               *)
(***************************************************************************)
EXTENDS Integers, Sequences, FiniteSets, TLC

VARIABLES
  nets,          \* input: ctx.kicadPcb.nets
  footprints,    \* input: ctx.kicadPcb.footprints
  symbols,       \* input: ctx.kicadSch.symbols
  has,           \* which optional members of ctx are present
  netNumToName,  \* ctx.netNumToName
  footprintUuidToComponentId,        \* ctx.footprintUuidToComponentId
  footprintUuidToSourceComponentId,  \* ctx.footprintUuidToSourceComponentId
  symbolUuidToComponentId,           \* ctx.symbolUuidToComponentId
  source_component,     \* ctx.db.source_component
  pcb_component,        \* ctx.db.pcb_component
  source_port,          \* ctx.db.source_port
  source_trace,         \* ctx.db.source_trace
  schematic_component,  \* ctx.db.schematic_component
  schematic_port,       \* ctx.db.schematic_port
  stats,                \* ctx.stats
  processedNets,        \* CollectSourceTracesStage.processedNets
  processedSymbols,     \* CollectLibrarySymbolsStage.processedSymbols
  finished,             \* ConverterStage.finished, per stage
  pc,                   \* the pass the pipeline is at
  fpCursor,             \* footprints handed to processFootprint so far
  steps,                \* step() invocations so far, per stage
  traceNet,             \* history: the net each source_trace was created for
  graphicLines,         \* input: ctx.kicadPcb.graphicLines
  graphicRects,         \* input: ctx.kicadPcb.graphicRects
  graphicPolys,         \* input: ctx.kicadPcb.graphicPolys
  graphicTexts,         \* input: ctx.kicadPcb.graphicTexts
  vias,                 \* input: ctx.kicadPcb.vias
  zones,                \* input: ctx.kicadPcb.zones
  k2cMatPcb,            \* ctx.k2cMatPcb, when has.k2cMatPcb
  k2cMatSch,            \* ctx.k2cMatSch, when has.k2cMatSch
  rotationIn,           \* input: the argument of a call of rotationToDirection
  arcIn,                \* input: the arguments of a call of convertArcToPoints
  pcb_board,            \* ctx.db.pcb_board
  pcb_silkscreen_path,  \* ctx.db.pcb_silkscreen_path
  pcb_silkscreen_text,  \* ctx.db.pcb_silkscreen_text
  pcb_smtpad,           \* ctx.db.pcb_smtpad
  pcb_plated_hole,      \* ctx.db.pcb_plated_hole
  pcb_hole,             \* ctx.db.pcb_hole
  pcb_port,             \* ctx.db.pcb_port
  pcb_via,              \* ctx.db.pcb_via
  pcb_copper_pour,      \* ctx.db.pcb_copper_pour
  warnings,             \* ctx.warnings
  returned,             \* what the last step() of each stage returned
  directionOut,         \* what the call of rotationToDirection returned
  arcOut,               \* what the call of convertArcToPoints returned
  segmentChain          \* orderedSegments and remainingSegments of a call of
                        \* createBoardOutline that is under way

inputs == <<nets, footprints, symbols, has, graphicLines, graphicRects,
            graphicPolys, graphicTexts, vias, zones, k2cMatPcb, k2cMatSch,
            rotationIn, arcIn>>
tables == <<source_component, pcb_component, source_port, source_trace,
            schematic_component, schematic_port>>
xrefs == <<footprintUuidToComponentId, footprintUuidToSourceComponentId,
           symbolUuidToComponentId>>
\* the tables of the pads and ports of footprints
padTables == <<pcb_smtpad, pcb_plated_hole, pcb_hole, pcb_port>>
\* the tables of board graphics, vias and zones
graphicsTables == <<pcb_board, pcb_silkscreen_path, pcb_silkscreen_text,
                    pcb_via, pcb_copper_pour, warnings>>
\* the results of the calls of the two functions, and the locals of a call of
\* createBoardOutline
results == <<directionOut, arcOut, segmentChain>>
vars == <<nets, footprints, symbols, has, netNumToName,
          footprintUuidToComponentId, footprintUuidToSourceComponentId,
          symbolUuidToComponentId, source_component, pcb_component,
          source_port, source_trace, schematic_component, schematic_port,
          stats, processedNets, processedSymbols, finished, pc, fpCursor,
          steps, traceNet, graphicLines, graphicRects, graphicPolys,
          graphicTexts, vias, zones, k2cMatPcb, k2cMatSch, rotationIn, arcIn,
          pcb_board, pcb_silkscreen_path, pcb_silkscreen_text, pcb_smtpad,
          pcb_plated_hole, pcb_hole, pcb_port, pcb_via, pcb_copper_pour,
          warnings, returned, directionOut, arcOut,
          segmentChain>>

----------------------------------------------------------------------------
(* Bounds of the model. *)

\* Net numbers of the input range over 0..MaxNet.
MaxNet == 2
\* The net list holds at most MaxNetEntries entries.
MaxNetEntries == 2
\* The footprints of a board hold at most MaxPads pads together.
MaxPads == 2
\* The symbol list holds at most MaxSymbols symbols.
MaxSymbols == 2
\* step() of one stage instance is invoked at most MaxSteps times.
MaxSteps == 2
\* The rotations given to rotationToDirection range over
\* -MaxRotation..MaxRotation, in degrees.
MaxRotation == 725
\* createBoardOutline is called with at most MaxPool lines.
MaxPool == 3
\* Whole turns added to a rotation range over -MaxTurns..MaxTurns.
MaxTurns == 2
\* The coordinates of the points of an arc are 0, 1 or MaxArcCoord grid units.
MaxArcCoord == 10
\* A call of convertArcToPoints gives at most MaxSegments for numSegments.
MaxSegments == 3
\* The sides of a rectangular outline are 1..MaxSide times 0.001 mm long.
MaxSide == 2
\* The transform of a board scales by 1..MaxScale.
MaxScale == 2

----------------------------------------------------------------------------
(* JavaScript values. *)

\* undefined, in a place that otherwise holds a string
Undefined == "<undefined>"
\* undefined, in a place that otherwise holds a number
NoNum == -1

\* a ?? b on strings
CoalesceStr(a, b) == IF a # Undefined THEN a ELSE b
\* a ?? b on numbers
CoalesceNum(a, b) == IF a # NoNum THEN a ELSE b
\* a || b on strings: the empty string is falsy too
OrStr(a, b) == IF a # Undefined /\ a # "" THEN a ELSE b

\* The map m after m.set(k, v): an existing key is overwritten.
MapSet(m, k, v) == [x \in DOMAIN m \cup {k} |-> IF x = k THEN v ELSE m[x]]
EmptyMap == [x \in {} |-> Undefined]

\* The identifier the store's insert gives the next record of a table.
GeneratedId(type, table) == type \o "_" \o ToString(Len(table))

\* `Net-${netNum}`
SynthesizedNetName(netNum) == "Net-" \o ToString(netNum)

----------------------------------------------------------------------------
(* rotationToDirection *)

\* a % b of JavaScript for b > 0: the remainder has the sign of a
JsRem(a, b) == IF a >= 0 THEN a % b ELSE -((-a) % b)

\* Mutant of rotationToDirection: the remainder is not brought back into
\* 0..359 by the second addition and remainder.
rotationToDirection_NoWrap(rotation) ==
  LET normalized == JsRem(rotation, 360)
  IN IF normalized >= 315 \/ normalized < 45 THEN "up"
     ELSE IF normalized >= 45 /\ normalized < 135 THEN "right"
     ELSE IF normalized >= 135 /\ normalized < 225 THEN "down"
     ELSE "left"

rotationToDirection(rotation) ==
  LET normalized == JsRem(JsRem(rotation, 360) + 360, 360)
  IN IF normalized >= 315 \/ normalized < 45 THEN "up"
     ELSE IF normalized >= 45 /\ normalized < 135 THEN "right"
     ELSE IF normalized >= 135 /\ normalized < 225 THEN "down"
     ELSE "left"

\* One call of rotationToDirection.
RotationToDirectionCall ==
  /\ pc = "rotationToDirection"
  /\ directionOut' = rotationToDirection(rotationIn)
  /\ pc' = "returned"
  /\ UNCHANGED <<inputs, netNumToName, xrefs, tables, stats, processedNets,
                 processedSymbols, finished, fpCursor, steps, traceNet,
                 padTables, graphicsTables, returned, arcOut, segmentChain>>

----------------------------------------------------------------------------
(* CollectGraphicsStage.convertArcToPoints *)

\* Math.abs
Abs(n) == IF n < 0 THEN -n ELSE n

\* 1e-10, the bound on |d| of calculateArcCenter, in squares of the grid unit
\* of 1e-6 mm
CollinearEpsilon == 100

\* numSegments = 8, the default of the parameter
DefaultSegments == 8

\* d of calculateArcCenter
CircleDeterminant(p1, p2, p3) ==
  2 * (p1.x * (p2.y - p3.y) + p2.x * (p3.y - p1.y) + p3.x * (p1.y - p2.y))

\* Mutant of calculateArcCenter: only d = 0 is taken for collinear.
calculateArcCenter_ZeroOnly(p1, p2, p3) ==
  LET d == CircleDeterminant(p1, p2, p3)
  IN IF d = 0 THEN [center |-> [null |-> TRUE], radiusIsZero |-> TRUE]
     ELSE [center |-> [null |-> FALSE, d |-> d], radiusIsZero |-> FALSE]

\* calculateArcCenter.  The center is null, or the point (ux, uy) given by
\* the numerators of ux and uy over d; of the radius, the square root of
\* (ax - ux)^2 + (ay - uy)^2, the model keeps whether it is 0.
calculateArcCenter(p1, p2, p3) ==
  LET ax == p1.x
      ay == p1.y
      bx == p2.x
      by == p2.y
      cx == p3.x
      cy == p3.y
      d == CircleDeterminant(p1, p2, p3)
      uxTimesD == (ax * ax + ay * ay) * (by - cy)
                  + (bx * bx + by * by) * (cy - ay)
                  + (cx * cx + cy * cy) * (ay - by)
      uyTimesD == (ax * ax + ay * ay) * (cx - bx)
                  + (bx * bx + by * by) * (ax - cx)
                  + (cx * cx + cy * cy) * (bx - ax)
  IN IF Abs(d) < CollinearEpsilon
     THEN [center |-> [null |-> TRUE], radiusIsZero |-> TRUE]
     ELSE [center |-> [null |-> FALSE, uxTimesD |-> uxTimesD,
                       uyTimesD |-> uyTimesD, d |-> d],
           radiusIsZero |-> (ax * d = uxTimesD /\ ay * d = uyTimesD)]

\* The point pushed in round i of the loop: center + radius * (cos, sin) of
\* startAngle + angleRange * i / numSegments, where the angles are those of
\* start, mid and end seen from the center.  Its coordinates are not whole
\* grid units; the model keeps what they are computed from.
ArcSample(center, start, mid, end, i, numSegments) ==
  [center |-> center, start |-> start, mid |-> mid, end |-> end,
   t |-> <<i, numSegments>>]

\* Mutant of convertArcToPoints: the last point is the sample of round
\* numSegments, not end.
convertArcToPoints_Recomputed(start, mid, end, numSegments) ==
  LET arc == calculateArcCenter(start, mid, end)
  IN IF arc.center.null \/ arc.radiusIsZero THEN <<start, end>>
     ELSE [i \in 1..numSegments |->
             ArcSample(arc.center, start, mid, end, i, numSegments)]

\* Mutant of convertArcToPoints: the loop starts with round 0.
convertArcToPoints_FromZero(start, mid, end, numSegments) ==
  LET arc == calculateArcCenter(start, mid, end)
  IN IF arc.center.null \/ arc.radiusIsZero THEN <<start, end>>
     ELSE [i \in 1..numSegments |->
             ArcSample(arc.center, start, mid, end, i - 1, numSegments)]
          \o <<end>>

\* convertArcToPoints, for numSegments as the call gives it or as defaulted
convertArcToPoints(start, mid, end, numSegments) ==
  LET arc == calculateArcCenter(start, mid, end)
  IN IF arc.center.null \/ arc.radiusIsZero THEN <<start, end>>
     ELSE [i \in 1..(numSegments - 1) |->
             ArcSample(arc.center, start, mid, end, i, numSegments)]
          \o <<end>>

\* numSegments of a call: the argument, or the default when there is none
SegmentsOf(numSegments) ==
  IF numSegments = NoNum THEN DefaultSegments ELSE numSegments

\* One call of convertArcToPoints.
ConvertArcToPointsCall ==
  /\ pc = "convertArcToPoints"
  /\ arcOut' = convertArcToPoints(arcIn.start, arcIn.mid, arcIn.end,
                                  SegmentsOf(arcIn.numSegments))
  /\ pc' = "returned"
  /\ UNCHANGED <<inputs, netNumToName, xrefs, tables, stats, processedNets,
                 processedSymbols, finished, fpCursor, steps, traceNet,
                 padTables, graphicsTables, returned, directionOut,
                 segmentChain>>

----------------------------------------------------------------------------
(* CollectGraphicsStage *)

\* str.includes(sub), for the layer names of the model and the substrings
\* the stages look for in a layer name
Includes(str, sub) ==
  sub \in (CASE str = "Edge.Cuts" -> {"Edge.Cuts"}
             [] str = "F.SilkS" -> {"SilkS"}
             [] str = "B.SilkS" -> {"SilkS", "B."}
             [] str = "F.Cu" -> {".Cu"}
             [] str = "B.Cu" -> {".Cu", "B.", "B.Cu"}
             [] str = "F.Fab" -> {"Fab"}
             [] str = "B.Fab" -> {"Fab", "B."}
             [] OTHER -> {})

\* The names of a layer joined by " ": "" for a layer that is undefined or
\* has no names.
LayerStr(layer) == IF layer = Undefined THEN "" ELSE layer

\* CollectGraphicsStage.mapLayer
mapLayer(kicadLayer) ==
  IF Includes(LayerStr(kicadLayer), "B.") \/ Includes(LayerStr(kicadLayer), "Back")
  THEN "bottom"
  ELSE "top"

\* A point that is undefined.
NoPoint == [null |-> TRUE]
Origin == [x |-> 0, y |-> 0]
\* p ?? { x: 0, y: 0 }
PointOrOrigin(p) == IF p = NoPoint THEN Origin ELSE p

\* applyToPoint of transformation-matrix.  The image of a sample of an arc is
\* kept as the sample and the matrix.
applyToPoint(matrix, point) ==
  IF "x" \in DOMAIN point
  THEN [x |-> matrix.a * point.x + matrix.c * point.y + matrix.e,
        y |-> matrix.b * point.x + matrix.d * point.y + matrix.f]
  ELSE [matrix |-> matrix, point |-> point]

\* epsilon = 0.001 of pointsEqual and pointsEqualKicad, in grid units of 1e-6
PointEpsilon == 1000

\* pointsEqual and pointsEqualKicad, which have one body
pointsEqual(p1, p2) ==
  Abs(p1.x - p2.x) < PointEpsilon /\ Abs(p1.y - p2.y) < PointEpsilon

\* array.findIndex(test), counted from 1 and 0 when no element passes, for
\* passes[i] = test(array[i])
FindIndex(passes) ==
  IF \E i \in 1..Len(passes) : passes[i]
  THEN CHOOSE i \in 1..Len(passes) :
         passes[i] /\ \A j \in 1..(i - 1) : ~passes[j]
  ELSE 0

\* The array after array.splice(index, 1), index counted from 1.
Splice(array, index) ==
  [i \in 1..(Len(array) - 1) |-> IF i < index THEN array[i] ELSE array[i + 1]]

\* Mutant of ChainStep: a segment that ends where the chain ends is looked
\* for first, and one that starts there only when there is none.
ChainStep_BackwardFirst(chain) ==
  LET orderedSegments == chain.orderedSegments
      remainingSegments == chain.remainingSegments
      lastEnd == orderedSegments[Len(orderedSegments)].end
      forward == FindIndex([i \in 1..Len(remainingSegments) |->
                  pointsEqual(remainingSegments[i].start, lastEnd)])
      backward == FindIndex([i \in 1..Len(remainingSegments) |->
                   pointsEqual(remainingSegments[i].end, lastEnd)])
  IN IF backward # 0
     THEN [orderedSegments |->
             Append(orderedSegments,
                    [start |-> remainingSegments[backward].end,
                     end |-> remainingSegments[backward].start]),
           remainingSegments |-> Splice(remainingSegments, backward)]
     ELSE IF forward # 0
     THEN [orderedSegments |->
             Append(orderedSegments, remainingSegments[forward]),
           remainingSegments |-> Splice(remainingSegments, forward)]
     ELSE [orderedSegments |-> Append(orderedSegments, Head(remainingSegments)),
           remainingSegments |-> Tail(remainingSegments)]

\* Mutant of ChainStep: a segment that ends where the chain ends is appended
\* as it is, not reversed.
ChainStep_NoReverse(chain) ==
  LET orderedSegments == chain.orderedSegments
      remainingSegments == chain.remainingSegments
      lastEnd == orderedSegments[Len(orderedSegments)].end
      forward == FindIndex([i \in 1..Len(remainingSegments) |->
                  pointsEqual(remainingSegments[i].start, lastEnd)])
      backward == FindIndex([i \in 1..Len(remainingSegments) |->
                   pointsEqual(remainingSegments[i].end, lastEnd)])
      foundIndex == IF forward # 0 THEN forward ELSE backward
  IN IF foundIndex # 0
     THEN [orderedSegments |->
             Append(orderedSegments, remainingSegments[foundIndex]),
           remainingSegments |-> Splice(remainingSegments, foundIndex)]
     ELSE [orderedSegments |-> Append(orderedSegments, Head(remainingSegments)),
           remainingSegments |-> Tail(remainingSegments)]

\* One round of the while loop of createBoardOutline.
ChainStep(chain) ==
  LET orderedSegments == chain.orderedSegments
      remainingSegments == chain.remainingSegments
      lastEnd == orderedSegments[Len(orderedSegments)].end
      forward == FindIndex([i \in 1..Len(remainingSegments) |->
                  pointsEqual(remainingSegments[i].start, lastEnd)])
      backward == FindIndex([i \in 1..Len(remainingSegments) |->
                   pointsEqual(remainingSegments[i].end, lastEnd)])
  IN IF forward # 0
     THEN [orderedSegments |->
             Append(orderedSegments, remainingSegments[forward]),
           remainingSegments |-> Splice(remainingSegments, forward)]
     ELSE IF backward # 0
     THEN [orderedSegments |->
             Append(orderedSegments,
                    [start |-> remainingSegments[backward].end,
                     end |-> remainingSegments[backward].start]),
           remainingSegments |-> Splice(remainingSegments, backward)]
     ELSE [orderedSegments |-> Append(orderedSegments, Head(remainingSegments)),
           remainingSegments |-> Tail(remainingSegments)]

\* The while loop of createBoardOutline.
RECURSIVE ChainLoop(_)
ChainLoop(chain) ==
  IF chain.remainingSegments = <<>> THEN chain ELSE ChainLoop(ChainStep(chain))

\* The for loop of createBoardOutline over orderedSegments: the images of the
\* start points, without one that equals the point before it.
RECURSIVE StartPoints(_, _, _)
StartPoints(points, orderedSegments, matrix) ==
  IF orderedSegments = <<>> THEN points
  ELSE
    LET startPos == applyToPoint(matrix, Head(orderedSegments).start)
    IN StartPoints(IF points = <<>> \/ ~pointsEqual(points[Len(points)], startPos)
                   THEN Append(points, startPos)
                   ELSE points,
                   Tail(orderedSegments), matrix)

\* Math.max(...xs) and Math.min(...xs) of a non-empty array of numbers
MaxOf(xs) == CHOOSE m \in {xs[i] : i \in 1..Len(xs)} :
               \A i \in 1..Len(xs) : xs[i] <= m
MinOf(xs) == CHOOSE m \in {xs[i] : i \in 1..Len(xs)} :
               \A i \in 1..Len(xs) : xs[i] >= m

\* Mutant of calculateWidth: the smallest x is not subtracted.
calculateWidth_MaxOnly(points) ==
  IF Len(points) = 0 THEN 0
  ELSE LET xs == [i \in 1..Len(points) |-> points[i].x]
       IN MaxOf(xs)

\* calculateWidth
calculateWidth(points) ==
  IF Len(points) = 0 THEN 0
  ELSE LET xs == [i \in 1..Len(points) |-> points[i].x]
       IN MaxOf(xs) - MinOf(xs)

\* calculateHeight
calculateHeight(points) ==
  IF Len(points) = 0 THEN 0
  ELSE LET ys == [i \in 1..Len(points) |-> points[i].y]
       IN MaxOf(ys) - MinOf(ys)

\* segments of createBoardOutline: the ends of the lines, the origin for an
\* end that is not there
LineSegments(lines) ==
  [i \in 1..Len(lines) |->
     [start |-> PointOrOrigin(lines[i].start),
      end |-> PointOrOrigin(lines[i].end)]]

\* Mutant of ChainStart: the first segment is copied from the pool, not taken
\* from it.
ChainStart_Copy(segments) ==
  IF Len(segments) > 0
  THEN [orderedSegments |-> <<Head(segments)>>, remainingSegments |-> segments]
  ELSE [orderedSegments |-> <<>>, remainingSegments |-> <<>>]

\* orderedSegments and remainingSegments as the while loop of
\* createBoardOutline is entered: the first segment is taken from the pool.
ChainStart(segments) ==
  IF Len(segments) > 0
  THEN [orderedSegments |-> <<Head(segments)>>,
        remainingSegments |-> Tail(segments)]
  ELSE [orderedSegments |-> <<>>, remainingSegments |-> <<>>]

\* points of createBoardOutline: the images of the start points of
\* orderedSegments and, unless it equals the first point, of the last end.
PointsOfChain(orderedSegments, matrix) ==
  LET points == StartPoints(<<>>, orderedSegments, matrix)
  IN IF Len(orderedSegments) > 0
     THEN LET endPos == applyToPoint(matrix,
                                     orderedSegments[Len(orderedSegments)].end)
          IN IF points # <<>> /\ ~pointsEqual(points[1], endPos)
             THEN Append(points, endPos)
             ELSE points
     ELSE points

\* The points of the outline createBoardOutline computes from lines.
OutlinePoints(lines, matrix) ==
  PointsOfChain(ChainLoop(ChainStart(LineSegments(lines))).orderedSegments,
                matrix)

\* The pcb_board table after createBoardOutline has stored points: the
\* board there is is updated, and one is inserted when there is none.
StoreOutline(boards, points) ==
  IF boards # <<>>
  THEN [boards EXCEPT ![1].outline = points,
                      ![1].width = calculateWidth(points),
                      ![1].height = calculateHeight(points)]
  ELSE Append(boards, [pcb_board_id |-> GeneratedId("pcb_board", boards),
                       outline |-> points,
                       width |-> calculateWidth(points),
                       height |-> calculateHeight(points)])

\* Mutant of createBoardOutline: a board is inserted whether or not the
\* table holds one.
createBoardOutline_Insert(boards, lines, matrix) ==
  LET points == OutlinePoints(lines, matrix)
  IN Append(boards, [pcb_board_id |-> GeneratedId("pcb_board", boards),
                     outline |-> points,
                     width |-> calculateWidth(points),
                     height |-> calculateHeight(points)])

\* createBoardOutline: the pcb_board table after the call
createBoardOutline(boards, lines, matrix) ==
  StoreOutline(boards, OutlinePoints(lines, matrix))

\* a || b on numbers: 0 is falsy too
OrNum(a, b) == IF a # NoNum /\ a # 0 THEN a ELSE b

\* 0.15, the stroke width of a line that gives none, in grid units
DefaultStrokeWidth == 150000

\* p || { x: 0, y: 0 }
PointOr(p) == IF p = NoPoint THEN Origin ELSE p

\* createSilkscreenPath: the record inserted
SilkscreenPathOf(table, line, matrix) ==
  [pcb_silkscreen_path_id |-> GeneratedId("pcb_silkscreen_path", table),
   pcb_component_id |-> "",
   layer |-> mapLayer(line.layer),
   route |-> <<applyToPoint(matrix, PointOr(line.start)),
               applyToPoint(matrix, PointOr(line.end))>>,
   stroke_width |-> OrNum(line.width, DefaultStrokeWidth)]

\* The for loop of step over silkLines.
RECURSIVE SilkLoop(_, _, _)
SilkLoop(table, silkLines, matrix) ==
  IF silkLines = <<>> THEN table
  ELSE SilkLoop(Append(table, SilkscreenPathOf(table, Head(silkLines), matrix)),
                Tail(silkLines), matrix)

\* isFilled of processRectangle, for the forms of rect._sxFill: none, a fill
\* object that is filled or not, and one that prints as "fill yes".
RectIsFilled(fill) == fill \in {"isFilled", "fill yes"}

\* x ?? 0 on the coordinates of a point that may be undefined
XOrZero(p) == IF p = NoPoint THEN 0 ELSE p.x
YOrZero(p) == IF p = NoPoint THEN 0 ELSE p.y

\* processRectangle: the pcb_smtpad table after the call.  The rectangles of
\* the model have an even sum of opposite coordinates, so the center is on
\* the grid.
processRectangle(pads, rect, matrix) ==
  LET start == [x |-> XOrZero(rect._sxStart), y |-> YOrZero(rect._sxStart)]
      end == [x |-> XOrZero(rect._sxEnd), y |-> YOrZero(rect._sxEnd)]
      layerStr == LayerStr(rect._sxLayer)
      isCopperLayer == Includes(layerStr, ".Cu")
      centerKicad == [x |-> (start.x + end.x) \div 2,
                      y |-> (start.y + end.y) \div 2]
      centerCJ == applyToPoint(matrix, centerKicad)
  IN IF ~RectIsFilled(rect._sxFill) \/ ~isCopperLayer THEN pads
     ELSE Append(pads,
            [pcb_smtpad_id |-> GeneratedId("pcb_smtpad", pads),
             pcb_component_id |-> "",
             x |-> centerCJ.x,
             y |-> centerCJ.y,
             width |-> Abs(end.x - start.x),
             height |-> Abs(end.y - start.y),
             layer |-> mapLayer(rect._sxLayer),
             shape |-> "rect",
             port_hints |-> <<>>])

\* The for loop of step over grRects.
RECURSIVE RectLoop(_, _, _)
RectLoop(pads, grRects, matrix) ==
  IF grRects = <<>> THEN pads
  ELSE RectLoop(processRectangle(pads, Head(grRects), matrix), Tail(grRects),
                matrix)

\* The for loop of processPolygon over ptsData.
RECURSIVE PolygonPoints(_)
PolygonPoints(ptsData) ==
  IF ptsData = <<>> THEN <<>>
  ELSE LET pt == Head(ptsData)
       IN (IF pt.token = "xy" THEN <<[x |-> pt.x, y |-> pt.y]>>
           ELSE IF pt.token = "arc"
           THEN convertArcToPoints(pt._sxStart, pt._sxMid, pt._sxEnd,
                                   DefaultSegments)
           ELSE <<>>)
          \o PolygonPoints(Tail(ptsData))

\* processPolygon: the pcb_smtpad table after the call
processPolygon(pads, poly, matrix) ==
  LET layerStr == LayerStr(poly._sxLayer)
      isCopperLayer == Includes(layerStr, ".Cu")
      points == PolygonPoints(poly._sxPts)
  IN IF ~poly._sxFill \/ ~isCopperLayer THEN pads
     ELSE IF Len(points) < 3 THEN pads
     ELSE Append(pads,
            [pcb_smtpad_id |-> GeneratedId("pcb_smtpad", pads),
             pcb_component_id |-> "",
             shape |-> "polygon",
             points |-> [i \in 1..Len(points) |->
                           applyToPoint(matrix, points[i])],
             layer |-> mapLayer(poly._sxLayer),
             port_hints |-> <<>>])

\* The for loop of step over polyArray.
RECURSIVE PolyLoop(_, _, _)
PolyLoop(pads, polyArray, matrix) ==
  IF polyArray = <<>> THEN pads
  ELSE PolyLoop(processPolygon(pads, Head(polyArray), matrix), Tail(polyArray),
                matrix)

\* 1, the height of the font of a text that gives none, in grid units
DefaultFontSize == 1000000

\* createSilkscreenText: the record inserted.  The heights of the model are
\* even, so kicadFontSize * 1.5 is on the grid.
SilkscreenTextOf(table, text, matrix) ==
  [pcb_silkscreen_text_id |-> GeneratedId("pcb_silkscreen_text", table),
   pcb_component_id |-> "",
   text |-> OrStr(text.text, ""),
   anchor_position |->
     applyToPoint(matrix, [x |-> XOrZero(text.at), y |-> YOrZero(text.at)]),
   layer |-> mapLayer(text.layer),
   font_size |-> (OrNum(text.size, DefaultFontSize) * 3) \div 2,
   font |-> "tscircuit2024"]

\* The for loop of step over textArray: text of silk, copper and fab layers.
RECURSIVE TextLoop(_, _, _)
TextLoop(table, textArray, matrix) ==
  IF textArray = <<>> THEN table
  ELSE
    LET text == Head(textArray)
        layerStr == LayerStr(text.layer)
    IN TextLoop(IF \/ Includes(layerStr, "SilkS")
                   \/ Includes(layerStr, ".Cu")
                   \/ Includes(layerStr, "Fab")
                THEN Append(table, SilkscreenTextOf(table, text, matrix))
                ELSE table,
                Tail(textArray), matrix)

\* edgeCutLines of step: the lines on a layer named Edge.Cuts, in order
EdgeCutLinesOf(lineArray) ==
  LET OnEdgeCuts(line) == Includes(LayerStr(line.layer), "Edge.Cuts")
  IN SelectSeq(lineArray, OnEdgeCuts)

\* silkLines of step: the other lines on a layer named SilkS, in order
SilkLinesOf(lineArray) ==
  LET OnSilk(line) == /\ ~Includes(LayerStr(line.layer), "Edge.Cuts")
                      /\ Includes(LayerStr(line.layer), "SilkS")
  IN SelectSeq(lineArray, OnSilk)

\* createBoardOutline up to its while loop.
CreateBoardOutlineEnter ==
  /\ pc = "createBoardOutline"
  /\ IF ~has.k2cMatPcb
     THEN pc' = "returned" /\ UNCHANGED segmentChain
     ELSE /\ segmentChain' =
               ChainStart(LineSegments(EdgeCutLinesOf(graphicLines)))
          /\ pc' = "chaining"
  /\ UNCHANGED <<inputs, netNumToName, xrefs, tables, stats, processedNets,
                 processedSymbols, finished, fpCursor, steps, traceNet,
                 padTables, graphicsTables, returned, directionOut, arcOut>>

\* One round of the while loop of createBoardOutline.
CreateBoardOutlineChain ==
  /\ pc = "chaining"
  /\ Len(segmentChain.remainingSegments) > 0
  /\ segmentChain' = ChainStep(segmentChain)
  /\ UNCHANGED <<inputs, netNumToName, xrefs, tables, stats, processedNets,
                 processedSymbols, finished, pc, fpCursor, steps, traceNet,
                 padTables, graphicsTables, returned, directionOut, arcOut>>

\* createBoardOutline from the exit of its while loop: the points of the
\* outline are computed and the board is updated or inserted.
CreateBoardOutlineStore ==
  /\ pc = "chaining"
  /\ Len(segmentChain.remainingSegments) = 0
  /\ pcb_board' =
       StoreOutline(pcb_board,
                    PointsOfChain(segmentChain.orderedSegments, k2cMatPcb))
  /\ pc' = "returned"
  /\ UNCHANGED <<inputs, netNumToName, xrefs, tables, stats, processedNets,
                 processedSymbols, finished, fpCursor, steps, traceNet,
                 padTables, pcb_silkscreen_path, pcb_silkscreen_text, pcb_via,
                 pcb_copper_pour, warnings, returned, results>>

CollectGraphicsStep ==
  /\ pc = "graphics"
  /\ steps.graphics < MaxSteps
  /\ steps' = [steps EXCEPT !.graphics = @ + 1]
  /\ finished' = [finished EXCEPT !.graphics = TRUE]
  /\ returned' = [returned EXCEPT !.graphics = "false"]
  /\ IF ~has.kicadPcb \/ ~has.k2cMatPcb
     THEN UNCHANGED <<pcb_board, pcb_silkscreen_path, pcb_smtpad,
                      pcb_silkscreen_text, stats>>
     ELSE
       LET edgeCutLines == EdgeCutLinesOf(graphicLines)
           silkLines == SilkLinesOf(graphicLines)
           pads == PolyLoop(RectLoop(pcb_smtpad, graphicRects, k2cMatPcb),
                            graphicPolys, k2cMatPcb)
       IN /\ pcb_board' =
               IF Len(edgeCutLines) > 0
               THEN createBoardOutline(pcb_board, edgeCutLines, k2cMatPcb)
               ELSE pcb_board
          /\ pcb_silkscreen_path' =
               SilkLoop(pcb_silkscreen_path, silkLines, k2cMatPcb)
          /\ pcb_smtpad' = pads
          /\ stats' = [stats EXCEPT !.pads = @ + Len(pads) - Len(pcb_smtpad)]
          /\ pcb_silkscreen_text' =
               TextLoop(pcb_silkscreen_text, graphicTexts, k2cMatPcb)
  /\ UNCHANGED <<inputs, netNumToName, xrefs, tables, processedNets,
                 processedSymbols, pc, fpCursor, traceNet, pcb_plated_hole,
                 pcb_hole, pcb_port, pcb_via, pcb_copper_pour, warnings,
                 results>>

----------------------------------------------------------------------------
(* CollectViasStage *)

\* 0.8 and 0.4, the size and the drill of a via that gives none, in grid units
DefaultViaSize == 800000
DefaultViaDrill == 400000

\* CollectViasStage.mapLayer
ViaMapLayer(kicadLayer) ==
  IF \/ Includes(kicadLayer, "B.Cu")
     \/ Includes(kicadLayer, "Back")
     \/ Includes(kicadLayer, "B_Cu")
  THEN "bottom"
  ELSE "top"

\* [fromLayer, toLayer] of processVia.  via.layers is given or not, and names
\* holds the layers it lists.
ViaLayers(layers) ==
  LET layersArray == layers.names
      fromLayer == IF layers.given /\ Len(layersArray) > 0
                   THEN ViaMapLayer(layersArray[1])
                   ELSE "top"
      toLayer == IF layers.given /\ Len(layersArray) > 1
                 THEN ViaMapLayer(layersArray[Len(layersArray)])
                 ELSE "bottom"
  IN <<fromLayer, toLayer>>

\* processVia: the record inserted
ViaOf(table, via, matrix) ==
  LET pos == applyToPoint(matrix, PointOr(via.at))
  IN [pcb_via_id |-> GeneratedId("pcb_via", table),
      x |-> pos.x,
      y |-> pos.y,
      outer_diameter |-> OrNum(via.size, DefaultViaSize),
      hole_diameter |-> OrNum(via.drill, DefaultViaDrill),
      layers |-> ViaLayers(via.layers)]

\* The for loop of step over viaArray.
RECURSIVE ViaLoop(_, _, _)
ViaLoop(table, viaArray, matrix) ==
  IF viaArray = <<>> THEN table
  ELSE ViaLoop(Append(table, ViaOf(table, Head(viaArray), matrix)),
               Tail(viaArray), matrix)

\* Mutant of ViasPrecondition: the net table is not asked for.
ViasPrecondition_NoNetTable(ctx) == ctx.kicadPcb /\ ctx.k2cMatPcb

\* The board, its transform and the net table are all there.
ViasPrecondition(ctx) == ctx.kicadPcb /\ ctx.k2cMatPcb /\ ctx.netNumToName

CollectViasStep ==
  /\ pc = "vias"
  /\ steps.vias < MaxSteps
  /\ steps' = [steps EXCEPT !.vias = @ + 1]
  /\ finished' = [finished EXCEPT !.vias = TRUE]
  /\ returned' = [returned EXCEPT !.vias = "false"]
  /\ IF ~ViasPrecondition(has)
     THEN UNCHANGED <<pcb_via, stats>>
     ELSE /\ pcb_via' = ViaLoop(pcb_via, vias, k2cMatPcb)
          /\ stats' = [stats EXCEPT !.vias = @ + Len(vias)]
  /\ UNCHANGED <<inputs, netNumToName, xrefs, tables, processedNets,
                 processedSymbols, pc, fpCursor, traceNet, padTables,
                 pcb_board, pcb_silkscreen_path, pcb_silkscreen_text,
                 pcb_copper_pour, warnings, results>>

----------------------------------------------------------------------------
(* CollectZonesStage *)

\* isZoneFilled.  zone._rawChildren is given or not; fill is the second
\* element of its fill entry, filled_polygon the points of its filled_polygon
\* entries and polygon those of its polygon entry.
isZoneFilled(zone) ==
  IF ~zone._rawChildren.given THEN FALSE
  ELSE IF zone._rawChildren.fill = "yes" THEN TRUE
  ELSE Len(zone._rawChildren.filled_polygon) > 0

\* extractFilledPolygons: the filled_polygon entries that have points
extractFilledPolygons(children) ==
  LET HasPoints(points) == Len(points) > 0
  IN SelectSeq(children.filled_polygon, HasPoints)

\* filledPolygons of createCopperPourFromZone, the main polygon when there
\* is no filled one
FilledPolygonsOf(children) ==
  LET filledPolygons == extractFilledPolygons(children)
  IN IF Len(filledPolygons) = 0 /\ Len(children.polygon) > 0
     THEN <<children.polygon>>
     ELSE filledPolygons

\* CollectZonesStage.mapLayer
ZoneMapLayer(kicadLayer) ==
  IF \/ Includes(LayerStr(kicadLayer), "B.Cu")
     \/ Includes(LayerStr(kicadLayer), "Back")
     \/ Includes(LayerStr(kicadLayer), "Bottom")
  THEN "bottom"
  ELSE "top"

\* this.ctx.netNumToName.get(netNum) || zoneData.netName || ""
ZoneNetName(table, children) ==
  LET netNum == OrNum(children.net, 0)
  IN OrStr(IF netNum \in DOMAIN table THEN table[netNum] ELSE Undefined,
           OrStr(children.net_name, ""))

\* The for loop of createCopperPourFromZone over filledPolygons.
RECURSIVE PourLoop(_, _, _, _, _)
PourLoop(table, filledPolygons, layer, netName, matrix) ==
  IF filledPolygons = <<>> THEN table
  ELSE PourLoop(Append(table,
                  [pcb_copper_pour_id |-> GeneratedId("pcb_copper_pour", table),
                   layer |-> layer,
                   net_name |-> netName,
                   points |-> [i \in 1..Len(Head(filledPolygons)) |->
                                 applyToPoint(matrix, Head(filledPolygons)[i])],
                   shape |-> "polygon"]),
                Tail(filledPolygons), layer, netName, matrix)

\* createCopperPourFromZone.  acc holds the pcb_copper_pour table and the
\* warnings.
createCopperPourFromZone(acc, zone, table, matrix) ==
  LET children == zone._rawChildren
      filledPolygons == FilledPolygonsOf(children)
  IN IF ~children.given THEN acc
     ELSE IF Len(filledPolygons) = 0
     THEN [acc EXCEPT !.warnings =
             Append(@, "Zone on layer " \o OrStr(children.layer, "unknown")
                         \o " has no valid polygon points")]
     ELSE [acc EXCEPT !.pours =
             PourLoop(@, filledPolygons, ZoneMapLayer(children.layer),
                      ZoneNetName(table, children), matrix)]

\* The for loop of step over zoneArray.
RECURSIVE ZoneLoop(_, _, _, _)
ZoneLoop(acc, zoneArray, table, matrix) ==
  IF zoneArray = <<>> THEN acc
  ELSE ZoneLoop(IF isZoneFilled(Head(zoneArray))
                THEN createCopperPourFromZone(acc, Head(zoneArray), table, matrix)
                ELSE acc,
                Tail(zoneArray), table, matrix)

CollectZonesStep ==
  /\ pc = "zones"
  /\ steps.zones < MaxSteps
  /\ steps' = [steps EXCEPT !.zones = @ + 1]
  /\ finished' = [finished EXCEPT !.zones = TRUE]
  /\ returned' = [returned EXCEPT !.zones = "false"]
  /\ IF ~has.kicadPcb \/ ~has.k2cMatPcb \/ ~has.netNumToName
     THEN UNCHANGED <<pcb_copper_pour, warnings, stats>>
     ELSE
       LET done == ZoneLoop([pours |-> pcb_copper_pour, warnings |-> warnings],
                            zones, netNumToName, k2cMatPcb)
       IN /\ pcb_copper_pour' = done.pours
          /\ warnings' = done.warnings
          /\ stats' = [stats EXCEPT !.copper_pours =
                         @ + Len(done.pours) - Len(pcb_copper_pour)]
  /\ UNCHANGED <<inputs, netNumToName, xrefs, tables, processedNets,
                 processedSymbols, pc, fpCursor, traceNet, padTables,
                 pcb_board, pcb_silkscreen_path, pcb_silkscreen_text,
                 pcb_via, results>>

----------------------------------------------------------------------------
(* CollectNetsStage *)

\* (net as any)._id ?? (net as any).number ?? (net as any).ordinal ?? 0
NetNumOf(net) ==
  CoalesceNum(net._id, CoalesceNum(net.number, CoalesceNum(net.ordinal, 0)))

\* Mutant of NetNameOf: || in place of ??, an empty name is replaced too.
NetNameOf_Or(net) ==
  OrStr(net._name, OrStr(net.name, SynthesizedNetName(NetNumOf(net))))

\* (net as any)._name ?? net.name ?? `Net-${netNum}`
NetNameOf(net) ==
  CoalesceStr(net._name, CoalesceStr(net.name, SynthesizedNetName(NetNumOf(net))))

\* The for loop over netArray: one set() per entry, in order.
RECURSIVE SetNets(_, _)
SetNets(m, netArray) ==
  IF netArray = <<>> THEN m
  ELSE SetNets(MapSet(m, NetNumOf(Head(netArray)), NetNameOf(Head(netArray))),
               Tail(netArray))

\* Mutant of ReserveNetZero: net 0 is set whether or not the list set it.
ReserveNetZero_Always(m) == MapSet(m, 0, "")

\* if (!netNumToName.has(0)) netNumToName.set(0, "")
ReserveNetZero(m) == IF 0 \in DOMAIN m THEN m ELSE MapSet(m, 0, "")

CollectNetsStep ==
  /\ pc = "nets"
  /\ netNumToName' =
       IF has.kicadPcb /\ has.netNumToName
       THEN ReserveNetZero(SetNets(netNumToName, nets))
       ELSE netNumToName
  /\ finished' = [finished EXCEPT !.nets = TRUE]
  /\ steps' = [steps EXCEPT !.nets = @ + 1]
  /\ returned' = [returned EXCEPT !.nets = "false"]
  /\ pc' = IF footprints = <<>> THEN "traces" ELSE "footprints"
  /\ UNCHANGED <<inputs, xrefs, tables, stats, processedNets,
                 processedSymbols, fpCursor, traceNet, padTables,
                 graphicsTables, results>>

----------------------------------------------------------------------------
(* processFootprint *)

\* footprint.uuid?.value || footprint.tstamp?.value
FootprintUuid(footprint) == OrStr(footprint.uuid, footprint.tstamp)

\* !uuid
NoUuid(uuid) == uuid = Undefined \/ uuid = ""

\* refdes || "U", for refdes = getFootprintReference(footprint)
ComponentName(footprint) == OrStr(footprint.reference, "U")

\* Math.cos and Math.sin of an angle in degrees that is a whole number of
\* quarter turns
CosDeg(deg) ==
  LET normalized == JsRem(JsRem(deg, 360) + 360, 360)
  IN CASE normalized = 0 -> 1
       [] normalized = 90 -> 0
       [] normalized = 180 -> -1
       [] normalized = 270 -> 0
SinDeg(deg) ==
  LET normalized == JsRem(JsRem(deg, 360) + 360, 360)
  IN CASE normalized = 0 -> 0
       [] normalized = 90 -> 1
       [] normalized = 180 -> 0
       [] normalized = 270 -> -1

\* pad.at || { x: 0, y: 0, angle: 0 }
PadAtOr(pad) == IF pad.at = NoPoint THEN [x |-> 0, y |-> 0, angle |-> 0] ELSE pad.at

\* pad.padType || pad.type || "thru_hole"
PadTypeOf(pad) == OrStr(pad.padType, "thru_hole")

\* pad.shape || "circle"
PadShapeOf(pad) == OrStr(pad.shape, "circle")

\* 1, 0.8 and 1.0: the size of a pad and the drill of a plated and of a
\* non-plated hole that give none, in grid units
DefaultPadSize == 1000000
DefaultDrill == 800000
DefaultNpthDrill == 1000000

\* size of processPad, for pad.size undefined (NoPoint) or a Size object
PadSizeOf(pad) ==
  IF pad.size = NoPoint
  THEN [x |-> DefaultPadSize, y |-> DefaultPadSize]
  ELSE [x |-> OrNum(pad.size.x, DefaultPadSize),
        y |-> OrNum(pad.size.y, DefaultPadSize)]

\* Mutant of PadGlobalPos: the offset of the pad is rotated by the rotation of
\* the component, not by its negation.
PadGlobalPos_Unnegated(pad, kicadComponentPos, componentRotation, matrix) ==
  LET padAt == PadAtOr(pad)
      rotatedPadX == padAt.x * CosDeg(componentRotation)
                       - padAt.y * SinDeg(componentRotation)
      rotatedPadY == padAt.x * SinDeg(componentRotation)
                       + padAt.y * CosDeg(componentRotation)
  IN applyToPoint(matrix, [x |-> kicadComponentPos.x + rotatedPadX,
                           y |-> kicadComponentPos.y + rotatedPadY])

\* globalPos of processPad: the offset of the pad rotated by the negated
\* rotation of the component, added to the position of the component and
\* transformed.
PadGlobalPos(pad, kicadComponentPos, componentRotation, matrix) ==
  LET padAt == PadAtOr(pad)
      rotatedPadX == padAt.x * CosDeg(-componentRotation)
                       - padAt.y * SinDeg(-componentRotation)
      rotatedPadY == padAt.x * SinDeg(-componentRotation)
                       + padAt.y * CosDeg(-componentRotation)
  IN applyToPoint(matrix, [x |-> kicadComponentPos.x + rotatedPadX,
                           y |-> kicadComponentPos.y + rotatedPadY])

\* `${componentId}_port_${padInfo.padNumber}`
PortIdOf(componentId, padNumber) == componentId \o "_port_" \o padNumber

\* Mutant of createPcbPort: the id of the port is made of the pad number only.
createPcbPort_NoComponent(ports, componentId, padNumber, portLayer, position) ==
  IF portLayer = Undefined THEN ports
  ELSE Append(ports,
         [pcb_port_id |-> GeneratedId("pcb_port", ports),
          pcb_component_id |-> componentId,
          source_port_id |-> "_port_" \o padNumber,
          x |-> position.x,
          y |-> position.y,
          layers |-> <<portLayer>>])

\* createPcbPort: the pcb_port table after the call.  portLayer is what
\* determineLayerFromLayers gives for padInfo.layers: a layer or nothing.
createPcbPort(ports, componentId, padNumber, portLayer, position) ==
  IF portLayer = Undefined THEN ports
  ELSE Append(ports,
         [pcb_port_id |-> GeneratedId("pcb_port", ports),
          pcb_component_id |-> componentId,
          source_port_id |-> PortIdOf(componentId, padNumber),
          x |-> position.x,
          y |-> position.y,
          layers |-> <<portLayer>>])

\* [pad.number?.toString()]
PortHints(pad) == <<pad.number>>

\* Math.max and Math.min of two numbers
Max2(a, b) == IF a >= b THEN a ELSE b
Min2(a, b) == IF a <= b THEN a ELSE b

\* createSmdPad: the record inserted.  pad.layer is what
\* determineLayerFromLayers gives for pad.layers, pad.primitives the points of
\* the contours of the gr_poly primitives of the pad, and
\* pad.roundrect_rratio a number of hundredths.
SmdPadOf(table, pad, componentId, pos, size, shape) ==
  IF shape = "custom" /\ Len(pad.primitives) > 0
  THEN [pcb_smtpad_id |-> GeneratedId("pcb_smtpad", table),
        type |-> "pcb_smtpad",
        shape |-> "polygon",
        pcb_component_id |-> componentId,
        layer |-> pad.layer,
        port_hints |-> PortHints(pad),
        points |-> [i \in 1..Len(pad.primitives) |->
                      [x |-> pos.x + pad.primitives[i].x,
                       y |-> pos.y + (-pad.primitives[i].y)]]]
  ELSE
    LET smtpad == [pcb_smtpad_id |-> GeneratedId("pcb_smtpad", table),
                   type |-> "pcb_smtpad",
                   pcb_component_id |-> componentId,
                   x |-> pos.x,
                   y |-> pos.y,
                   width |-> size.x,
                   height |-> size.y,
                   layer |-> pad.layer,
                   port_hints |-> PortHints(pad)]
    IN IF shape = "circle"
       THEN smtpad @@ [shape |-> "circle",
                       radius |-> Max2(size.x, size.y) \div 2]
       ELSE IF shape = "roundrect" /\ pad.roundrect_rratio # NoNum
       THEN smtpad @@ [shape |-> "rect",
                       corner_radius |->
                         (Min2(size.x, size.y) * pad.roundrect_rratio) \div 200]
       ELSE smtpad @@ [shape |-> "rect"]

\* drill || 0.8
HoleDiameterOf(drill) == OrNum(drill, DefaultDrill)

\* shouldSwapDimensions of createPlatedHole
ShouldSwapDimensions(rotation) ==
  LET remainder == JsRem(rotation, 360)
      normalizedRotation == IF remainder < 0 THEN remainder + 360 ELSE remainder
  IN \/ (normalizedRotation >= 45 /\ normalizedRotation < 135)
     \/ (normalizedRotation >= 225 /\ normalizedRotation < 315)

\* createPlatedHole: the record inserted
PlatedHoleOf(table, pad, componentId, pos, size, drill, shape, rotation) ==
  LET holeDiameter == HoleDiameterOf(drill)
      swap == ShouldSwapDimensions(rotation) /\ shape = "oval"
      outerWidth == IF swap THEN size.y ELSE size.x
      outerHeight == IF swap THEN size.x ELSE size.y
      platedHole == [pcb_plated_hole_id |-> GeneratedId("pcb_plated_hole", table),
                     pcb_component_id |-> componentId,
                     x |-> pos.x,
                     y |-> pos.y,
                     port_hints |-> PortHints(pad)]
  IN IF shape = "circle"
     THEN platedHole @@ [shape |-> "circle",
                         hole_diameter |-> holeDiameter,
                         outer_diameter |-> Max2(outerWidth, outerHeight),
                         layers |-> <<"top", "bottom">>]
     ELSE IF shape = "oval"
     THEN platedHole @@ [shape |-> "pill",
                         hole_width |-> holeDiameter,
                         hole_height |-> holeDiameter,
                         outer_width |-> outerWidth,
                         outer_height |-> outerHeight,
                         layers |-> <<"top", "bottom">>]
     ELSE IF shape \in {"rect", "square"}
     THEN platedHole @@ [shape |-> "pill_hole_with_rect_pad",
                         hole_shape |-> "circle",
                         pad_shape |-> "rect",
                         hole_width |-> holeDiameter,
                         hole_height |-> holeDiameter,
                         rect_pad_width |-> outerWidth,
                         rect_pad_height |-> outerHeight,
                         layers |-> <<"top", "bottom">>]
     ELSE platedHole

\* createNpthHole: the record inserted
NpthHoleOf(table, pos, drill) ==
  [pcb_hole_id |-> GeneratedId("pcb_hole", table),
   x |-> pos.x,
   y |-> pos.y,
   hole_diameter |-> OrNum(drill, DefaultNpthDrill),
   hole_shape |-> "circle"]

\* processPad: the pad tables and stats.pads after the call.  pad.portLayer
\* is what determineLayerFromLayers gives in createPcbPort for the layers of
\* the port of this pad.
processPad(db, pad, componentId, kicadComponentPos, componentRotation, matrix) ==
  LET padType == PadTypeOf(pad)
      padShape == PadShapeOf(pad)
      globalPos == PadGlobalPos(pad, kicadComponentPos, componentRotation, matrix)
      size == PadSizeOf(pad)
      totalRotation == -componentRotation - PadAtOr(pad).angle
      ports == IF pad.number # Undefined /\ pad.number # ""
               THEN createPcbPort(db.pcb_port, componentId, pad.number,
                                  pad.portLayer, globalPos)
               ELSE db.pcb_port
  IN IF padType = "smd"
     THEN [db EXCEPT !.pcb_port = ports,
                     !.pcb_smtpad = Append(@, SmdPadOf(@, pad, componentId,
                                                       globalPos, size, padShape)),
                     !.pads = @ + 1]
     ELSE IF padType = "np_thru_hole"
     THEN [db EXCEPT !.pcb_port = ports,
                     !.pcb_hole = Append(@, NpthHoleOf(@, globalPos, pad.drill))]
     ELSE [db EXCEPT !.pcb_port = ports,
                     !.pcb_plated_hole =
                        Append(@, PlatedHoleOf(@, pad, componentId, globalPos,
                                               size, pad.drill, padShape,
                                               totalRotation)),
                     !.pads = @ + 1]

\* processPads: the for loop over padArray
RECURSIVE processPads(_, _, _, _, _, _)
processPads(db, padArray, componentId, kicadComponentPos, componentRotation, matrix) ==
  IF padArray = <<>> THEN db
  ELSE processPads(processPad(db, Head(padArray), componentId,
                              kicadComponentPos, componentRotation, matrix),
                   Tail(padArray), componentId, kicadComponentPos,
                   componentRotation, matrix)

\* (position as any)?.angle ?? 0
RotationOf(position) == IF position = NoPoint THEN 0 ELSE position.angle

\* One call of processFootprint, for the next footprint of the board; the
\* trace pass follows the call for the last footprint.  The layer of the
\* component and the records of processFootprintText and
\* processFootprintGraphics come from code outside src/ and are left out.
ProcessFootprint ==
  /\ pc = "footprints"
  /\ fpCursor < Len(footprints)
  /\ fpCursor' = fpCursor + 1
  /\ pc' = IF fpCursor + 1 = Len(footprints) THEN "traces" ELSE pc
  /\ LET footprint == footprints[fpCursor + 1]
         kicadPos == [x |-> XOrZero(footprint.position),
                      y |-> YOrZero(footprint.position)]
         cjPos == applyToPoint(k2cMatPcb, kicadPos)
         rotation == RotationOf(footprint.position)
         uuid == FootprintUuid(footprint)
         sourceComponentId == GeneratedId("source_component", source_component)
         componentId == GeneratedId("pcb_component", pcb_component)
         db == processPads([pcb_smtpad |-> pcb_smtpad,
                            pcb_plated_hole |-> pcb_plated_hole,
                            pcb_hole |-> pcb_hole,
                            pcb_port |-> pcb_port,
                            pads |-> stats.pads],
                           footprint.fpPads, componentId, kicadPos, rotation,
                           k2cMatPcb)
     IN IF ~has.k2cMatPcb \/ NoUuid(uuid)
        THEN UNCHANGED <<source_component, pcb_component,
                         footprintUuidToComponentId,
                         footprintUuidToSourceComponentId, stats, padTables>>
        ELSE /\ source_component' = Append(source_component,
                  [source_component_id |-> sourceComponentId,
                   name |-> ComponentName(footprint)])
             /\ pcb_component' = Append(pcb_component,
                  [pcb_component_id |-> componentId,
                   center |-> [x |-> cjPos.x, y |-> cjPos.y],
                   rotation |-> -rotation,
                   width |-> 0,
                   height |-> 0,
                   source_component_id |-> sourceComponentId])
             /\ footprintUuidToComponentId' =
                  MapSet(footprintUuidToComponentId, uuid, componentId)
             /\ footprintUuidToSourceComponentId' =
                  MapSet(footprintUuidToSourceComponentId, uuid, sourceComponentId)
             /\ pcb_smtpad' = db.pcb_smtpad
             /\ pcb_plated_hole' = db.pcb_plated_hole
             /\ pcb_hole' = db.pcb_hole
             /\ pcb_port' = db.pcb_port
             /\ stats' = [stats EXCEPT !.components = @ + 1, !.pads = db.pads]
  /\ UNCHANGED <<inputs, netNumToName, symbolUuidToComponentId, source_port,
                 source_trace, schematic_component, schematic_port,
                 processedNets, processedSymbols, finished, steps, traceNet,
                 graphicsTables, results, returned>>

----------------------------------------------------------------------------
(* CollectSourceTracesStage *)

\* A value of pad._sxNet or pad.net: undefined, a number, or a net object
\* with _id, number and ordinal.
NoNet == [kind |-> "undefined", value |-> NoNum,
          _id |-> NoNum, number |-> NoNum, ordinal |-> NoNum]
NumberNet(n) == [NoNet EXCEPT !.kind = "number", !.value = n]
ObjectNet(id, number, ordinal) ==
  [NoNet EXCEPT !.kind = "object", !._id = id, !.number = number,
                !.ordinal = ordinal]

\* JavaScript truthiness of such a value
Truthy(v) == v.kind = "object" \/ (v.kind = "number" /\ v.value # 0)

\* getPadNet: the net number of a pad, NoNum for null
getPadNet(pad) ==
  LET net == IF Truthy(pad._sxNet) THEN pad._sxNet ELSE pad.net
  IN IF ~Truthy(net) THEN NoNum
     ELSE IF net.kind = "number" THEN net.value
     ELSE CoalesceNum(net._id, CoalesceNum(net.number, net.ordinal))

\* Mutant of Unconnected: net 0 is not taken for "no connection".
Unconnected_NullOnly(netNum) == netNum = NoNum

\* netNum === null || netNum === undefined || netNum === 0
Unconnected(netNum) == netNum = NoNum \/ netNum = 0

\* !padNumber, for padNumber = pad.number?.toString()
NoPadNumber(padNumber) == padNumber = Undefined \/ padNumber = ""

\* `${componentId}_port_${padNumber}`
SourcePortIdOf(componentId, padNumber) == componentId \o "_port_" \o padNumber

\* db.source_port.list().find(sp => sp.source_port_id === sourcePortId)
PortExists(ports, sourcePortId) ==
  \E i \in 1..Len(ports) : ports[i].source_port_id = sourcePortId

\* getOrCreateSourcePort: the source_port table after the call
getOrCreateSourcePort(ports, componentId, padNumber, sourceComponentId, reference) ==
  LET sourcePortId == SourcePortIdOf(componentId, padNumber)
  IN IF PortExists(ports, sourcePortId) THEN ports
     ELSE Append(ports,
            [source_port_id |-> sourcePortId,
             source_component_id |-> OrStr(sourceComponentId, componentId),
             name |-> OrStr(reference, "U") \o "." \o padNumber])

\* The index of netNum's entry in netToPads, 0 when it has none.
NetIndex(netToPads, netNum) ==
  IF \E i \in 1..Len(netToPads) : netToPads[i].net = netNum
  THEN CHOOSE i \in 1..Len(netToPads) : netToPads[i].net = netNum
  ELSE 0

\* if (!netToPads.has(netNum)) netToPads.set(netNum, []);
\* netToPads.get(netNum).push(entry)
PushPad(netToPads, netNum, entry) ==
  LET i == NetIndex(netToPads, netNum)
  IN IF i = 0
     THEN Append(netToPads, [net |-> netNum, pads |-> <<entry>>])
     ELSE [netToPads EXCEPT ![i].pads = Append(@, entry)]

\* The for loop of processFootprintPads over padArray.  acc holds the
\* source_port table and netToPads, a Map in insertion order.
RECURSIVE PadLoop(_, _, _, _, _)
PadLoop(acc, padArray, componentId, sourceComponentId, reference) ==
  IF padArray = <<>> THEN acc
  ELSE
    LET pad == Head(padArray)
        padNumber == pad.number
        netNum == getPadNet(pad)
        next ==
          IF NoPadNumber(padNumber) \/ Unconnected(netNum) THEN acc
          ELSE [ports |-> getOrCreateSourcePort(acc.ports, componentId,
                                                padNumber, sourceComponentId,
                                                reference),
                netToPads |-> PushPad(acc.netToPads, netNum,
                   [componentId |-> componentId, padNumber |-> padNumber,
                    sourcePortId |-> SourcePortIdOf(componentId, padNumber)])]
    IN PadLoop(next, Tail(padArray), componentId, sourceComponentId, reference)

\* processFootprintPads
processFootprintPads(acc, footprint) ==
  LET footprintUuid == FootprintUuid(footprint)
  IN IF NoUuid(footprintUuid) THEN acc
     ELSE IF footprintUuid \notin DOMAIN footprintUuidToComponentId THEN acc
     ELSE PadLoop(acc, footprint.fpPads,
                  footprintUuidToComponentId[footprintUuid],
                  IF footprintUuid \in DOMAIN footprintUuidToSourceComponentId
                  THEN footprintUuidToSourceComponentId[footprintUuid]
                  ELSE Undefined,
                  footprint.reference)

\* The for loop of step over footprintArray.
RECURSIVE FootprintLoop(_, _)
FootprintLoop(acc, footprintArray) ==
  IF footprintArray = <<>> THEN acc
  ELSE FootprintLoop(processFootprintPads(acc, Head(footprintArray)),
                     Tail(footprintArray))

\* Mutant of TraceDisplayName: ?? in place of ||, an empty name is kept.
TraceDisplayName_Coalesce(netNum) ==
  CoalesceStr(IF netNum \in DOMAIN netNumToName THEN netNumToName[netNum]
              ELSE Undefined,
              SynthesizedNetName(netNum))

\* this.ctx.netNumToName?.get(netNum) || `Net-${netNum}`
TraceDisplayName(netNum) ==
  OrStr(IF netNum \in DOMAIN netNumToName THEN netNumToName[netNum]
        ELSE Undefined,
        SynthesizedNetName(netNum))

\* pads.map((p) => p.sourcePortId)
RECURSIVE PortIdsOf(_)
PortIdsOf(pads) ==
  IF pads = <<>> THEN <<>>
  ELSE <<Head(pads).sourcePortId>> \o PortIdsOf(Tail(pads))

\* Mutant of SkipsNet: processedNets is not looked at.
SkipsNet_NotProcessed(pads, processed, netNum) == Len(pads) < 2

\* Mutant of SkipsNet: a net of one pad is not skipped.
SkipsNet_One(pads, processed, netNum) == Len(pads) < 1 \/ netNum \in processed

\* pads.length < 2 || this.processedNets.has(netNum)
SkipsNet(pads, processed, netNum) == Len(pads) < 2 \/ netNum \in processed

\* createSourceTrace: the record inserted
SourceTraceOf(table, netNum, pads) ==
  [source_trace_id |-> GeneratedId("source_trace", table),
   connected_source_port_ids |-> PortIdsOf(pads),
   display_name |-> TraceDisplayName(netNum)]

\* The for loop of step over netToPads.entries().  acc holds the
\* source_trace table, processedNets, the traces counter and traceNet.
RECURSIVE TraceLoop(_, _)
TraceLoop(acc, entries) ==
  IF entries = <<>> THEN acc
  ELSE
    LET netNum == Head(entries).net
        pads == Head(entries).pads
        next ==
          IF SkipsNet(pads, acc.processed, netNum) THEN acc
          ELSE [traces |-> Append(acc.traces,
                              SourceTraceOf(acc.traces, netNum, pads)),
                processed |-> acc.processed \cup {netNum},
                count |-> acc.count + 1,
                nets |-> Append(acc.nets, netNum)]
    IN TraceLoop(next, Tail(entries))

CollectSourceTracesStep ==
  /\ pc = "traces"
  /\ steps.traces < MaxSteps
  /\ steps' = [steps EXCEPT !.traces = @ + 1]
  /\ finished' = [finished EXCEPT !.traces = TRUE]
  /\ returned' = [returned EXCEPT !.traces = "false"]
  /\ IF ~has.kicadPcb \/ ~has.netNumToName
     THEN UNCHANGED <<source_port, source_trace, processedNets, stats, traceNet>>
     ELSE
       LET collected == FootprintLoop([ports |-> source_port, netToPads |-> <<>>],
                                      footprints)
           emitted == TraceLoop([traces |-> source_trace,
                                 processed |-> processedNets,
                                 count |-> stats.traces,
                                 nets |-> traceNet],
                                collected.netToPads)
       IN /\ source_port' = collected.ports
          /\ source_trace' = emitted.traces
          /\ processedNets' = emitted.processed
          /\ stats' = [stats EXCEPT !.traces = emitted.count]
          /\ traceNet' = emitted.nets
  /\ UNCHANGED <<inputs, netNumToName, xrefs, source_component, pcb_component,
                 schematic_component, schematic_port, processedSymbols, pc,
                 fpCursor, padTables, graphicsTables, results>>

----------------------------------------------------------------------------
(* CollectLibrarySymbolsStage *)

\* ctx.kicadSch.libSymbols.symbols: the library of the sheet.  A pin has a
\* position in its symbol (_sxAt) or none, an angle (at.angle) or none, and a
\* number.
LibSymbols ==
  <<[libraryId |-> "Device:R",
     pins |-> <<[_sxAt |-> [x |-> 1000000, y |-> 0], at |-> [angle |-> 0],
                 number |-> "1"],
                [_sxAt |-> [x |-> 0, y |-> 3810000], at |-> [angle |-> 270],
                 number |-> "2"]>>],
    [libraryId |-> "Device:C",
     pins |-> <<[_sxAt |-> [x |-> -2540000, y |-> 1270000], at |-> NoPoint,
                 number |-> "1"],
                [_sxAt |-> NoPoint, at |-> [angle |-> 180], number |-> "2"]>>],
    [libraryId |-> "Device:D",
     pins |-> <<[_sxAt |-> [x |-> 0, y |-> 0], at |-> [angle |-> 45],
                 number |-> "1"],
                [_sxAt |-> [x |-> 0, y |-> 0], at |-> [angle |-> 134],
                 number |-> "2"],
                [_sxAt |-> [x |-> 0, y |-> 0], at |-> [angle |-> 225],
                 number |-> "3"],
                [_sxAt |-> [x |-> 0, y |-> 0], at |-> [angle |-> 314],
                 number |-> "4"]>>]>>

\* this.getProperty(symbol, "Reference") || "U?"
SymbolReference(symbol) == OrStr(symbol.reference, "U?")

\* symbol.libraryId || ""
SymbolLibId(symbol) == OrStr(symbol.libraryId, "")

\* `${libId}_source`
SourceComponentIdOf(libId) == libId \o "_source"

\* db.source_component.list().find(
\*   sc => sc.source_component_id === sourceComponentId)
SourceExists(sources, sourceComponentId) ==
  \E i \in 1..Len(sources) : sources[i].source_component_id = sourceComponentId

\* The source_component table after the conditional insert of processSymbol.
\* The record is inserted without a source_component_id, so it gets the
\* generated one.
InsertSourceUnlessExists(sources, symbol) ==
  IF SourceExists(sources, SourceComponentIdOf(SymbolLibId(symbol)))
  THEN sources
  ELSE Append(sources,
         [source_component_id |-> GeneratedId("source_component", sources),
          name |-> OrStr(SymbolLibId(symbol), SymbolReference(symbol))])

\* The pins of the library symbol of libraryId: libSymbols.symbols.find(
\*   ls => ls.libraryId === libId), no pins when there is none.
PinsOf(libraryId) ==
  IF \E i \in 1..Len(LibSymbols) : LibSymbols[i].libraryId = libraryId
  THEN LibSymbols[CHOOSE i \in 1..Len(LibSymbols) :
                    /\ LibSymbols[i].libraryId = libraryId
                    /\ \A j \in 1..(i - 1) : LibSymbols[j].libraryId # libraryId].pins
  ELSE <<>>

\* Math.cos and Math.sin of a whole number of quarter turns, as the doubles
\* they return: val, the cosine and the sine of the angle, and res, what the
\* double is off by, counted in units of 6.123e-17 (Math.cos(Math.PI / 2)).
\* Math.PI / 2 lies one unit below the quarter turn, so k quarter turns are
\* off by k units, to first order.
MathCos(deg) == [val |-> CosDeg(deg), res |-> (deg \div 90) * SinDeg(deg)]
MathSin(deg) == [val |-> SinDeg(deg), res |-> -(deg \div 90) * CosDeg(deg)]

\* at?.angle ?? 0
AngleOf(at) == IF at = NoPoint THEN 0 ELSE at.angle

\* Mutant of inferPinDirection: the rotation of the component is left out.
inferPinDirection_PinOnly(pin, componentRotation) ==
  rotationToDirection(AngleOf(pin.at))

\* inferPinDirection
inferPinDirection(pin, componentRotation) ==
  rotationToDirection(AngleOf(pin.at) + componentRotation)

\* Mutant of PinRelativePos: the Y axis is not flipped.
PinRelativePos_NoFlip(pinAt, componentRotation, matrix) ==
  LET cosR == MathCos(componentRotation)
      sinR == MathSin(componentRotation)
      scaleFactor == Abs(matrix.a)
      Scaled(n) == IF matrix.a # 0 THEN n * scaleFactor ELSE n \div 15
  IN [x |-> [val |-> Scaled(pinAt.x * cosR.val - pinAt.y * sinR.val),
             res |-> Scaled(pinAt.x * cosR.res - pinAt.y * sinR.res)],
      y |-> [val |-> Scaled(pinAt.x * sinR.val + pinAt.y * cosR.val),
             res |-> Scaled(pinAt.x * sinR.res + pinAt.y * cosR.res)]]

\* relativePos of createPorts: the position of the pin rotated by the
\* rotation of the component, scaled by Math.abs(k2cMatSch.a || 1 / 15), with
\* Y negated.  A coordinate is a number val of grid units and res units of
\* 6.123e-17 times a grid unit.
PinRelativePos(pinAt, componentRotation, matrix) ==
  LET cosR == MathCos(componentRotation)
      sinR == MathSin(componentRotation)
      scaleFactor == Abs(matrix.a)
      Scaled(n) == IF matrix.a # 0 THEN n * scaleFactor ELSE n \div 15
  IN [x |-> [val |-> Scaled(pinAt.x * cosR.val - pinAt.y * sinR.val),
             res |-> Scaled(pinAt.x * cosR.res - pinAt.y * sinR.res)],
      y |-> [val |-> -Scaled(pinAt.x * sinR.val + pinAt.y * cosR.val),
             res |-> -Scaled(pinAt.x * sinR.res + pinAt.y * cosR.res)]]

\* createPorts: the schematic_port table after the loop over allPins
RECURSIVE PinLoop(_, _, _, _, _)
PinLoop(ports, pins, componentId, componentRotation, matrix) ==
  IF pins = <<>> THEN ports
  ELSE PinLoop(IF Head(pins)._sxAt = NoPoint THEN ports
               ELSE Append(ports,
                      [schematic_port_id |->
                         GeneratedId("schematic_port", ports),
                       schematic_component_id |-> componentId,
                       center |-> PinRelativePos(Head(pins)._sxAt,
                                                 componentRotation, matrix),
                       facing_direction |->
                         inferPinDirection(Head(pins), componentRotation),
                       pin_number |-> Head(pins).number]),
               Tail(pins), componentId, componentRotation, matrix)

\* processSymbol.  acc holds the tables, the uuid table and the counter.
\* The size and the symbol name of the component are left out.
processSymbol(acc, symbol) ==
  IF ~has.k2cMatSch THEN acc
  ELSE
    LET sources == InsertSourceUnlessExists(acc.sources, symbol)
        kicadPos == [x |-> XOrZero(symbol.at), y |-> YOrZero(symbol.at)]
        cjPos == applyToPoint(k2cMatSch, kicadPos)
        uuid == symbol.uuid
        componentId == GeneratedId("schematic_component", acc.components)
    IN IF NoUuid(uuid) THEN [acc EXCEPT !.sources = sources]
       ELSE [sources |-> sources,
             components |-> Append(acc.components,
                [schematic_component_id |-> componentId,
                 source_component_id |->
                   SourceComponentIdOf(SymbolLibId(symbol)),
                 center |-> [x |-> cjPos.x, y |-> cjPos.y]]),
             uuidToComponentId |-> MapSet(acc.uuidToComponentId, uuid, componentId),
             ports |-> PinLoop(acc.ports, PinsOf(symbol.libraryId), componentId,
                               AngleOf(symbol.at), k2cMatSch),
             count |-> acc.count + 1,
             processed |-> acc.processed]

\* Mutant of SkipsSymbol: a uuid seen before is processed again.
SkipsSymbol_NoUuidOnly(uuid, processed) == NoUuid(uuid)

\* !uuid || this.processedSymbols.has(uuid)
SkipsSymbol(uuid, processed) == NoUuid(uuid) \/ uuid \in processed

\* The for loop of step over symbols.
RECURSIVE SymbolLoop(_, _)
SymbolLoop(acc, list) ==
  IF list = <<>> THEN acc
  ELSE
    LET symbol == Head(list)
        next ==
          IF SkipsSymbol(symbol.uuid, acc.processed) THEN acc
          ELSE [processSymbol(acc, symbol) EXCEPT
                  !.processed = @ \cup {symbol.uuid}]
    IN SymbolLoop(next, Tail(list))

CollectLibrarySymbolsStep ==
  /\ pc = "symbols"
  /\ steps.symbols < MaxSteps
  /\ steps' = [steps EXCEPT !.symbols = @ + 1]
  /\ finished' = [finished EXCEPT !.symbols = TRUE]
  /\ returned' = [returned EXCEPT !.symbols = "false"]
  /\ IF ~has.kicadSch \/ ~has.k2cMatSch
     THEN UNCHANGED <<source_component, schematic_component, schematic_port,
                      symbolUuidToComponentId, stats, processedSymbols>>
     ELSE
       LET done == SymbolLoop([sources |-> source_component,
                               components |-> schematic_component,
                               uuidToComponentId |-> symbolUuidToComponentId,
                               ports |-> schematic_port,
                               count |-> stats.components,
                               processed |-> processedSymbols],
                              symbols)
       IN /\ source_component' = done.sources
          /\ schematic_component' = done.components
          /\ symbolUuidToComponentId' = done.uuidToComponentId
          /\ schematic_port' = done.ports
          /\ stats' = [stats EXCEPT !.components = done.count]
          /\ processedSymbols' = done.processed
  /\ UNCHANGED <<inputs, netNumToName, footprintUuidToComponentId,
                 footprintUuidToSourceComponentId, pcb_component, source_port,
                 source_trace, processedNets, pc, fpCursor, traceNet,
                 padTables, graphicsTables, results>>

----------------------------------------------------------------------------
(* Inputs *)

\* The shapes a net entry of the parsed board takes: the number under _id,
\* number or ordinal or under none of them, the name under _name or name or
\* absent.
NetNumbers == 0..MaxNet
NetIdInputs ==
  {[_id |-> NoNum, number |-> NoNum, ordinal |-> NoNum]}
  \cup {[_id |-> n, number |-> NoNum, ordinal |-> NoNum] : n \in NetNumbers}
  \cup {[_id |-> NoNum, number |-> n, ordinal |-> NoNum] : n \in NetNumbers}
  \cup {[_id |-> NoNum, number |-> NoNum, ordinal |-> n] : n \in NetNumbers}
NetNameInputs ==
  {[_name |-> Undefined, name |-> Undefined],
   [_name |-> "", name |-> Undefined],
   [_name |-> "GND", name |-> Undefined],
   [_name |-> Undefined, name |-> "VCC"]}
NetInputs ==
  {[_id |-> i._id, number |-> i.number, ordinal |-> i.ordinal,
    _name |-> s._name, name |-> s.name] : i \in NetIdInputs, s \in NetNameInputs}

\* All sequences over S of length at most n.
SeqsUpTo(S, n) == UNION {[1..k -> S] : k \in 0..n}

AllPresent == [kicadPcb |-> TRUE, netNumToName |-> TRUE, k2cMatPcb |-> TRUE,
               kicadSch |-> TRUE, k2cMatSch |-> TRUE]

\* The stages of the pipeline.
Stages == {"nets", "traces", "symbols", "graphics", "vias", "zones"}

\* The transform of a board in millimetres: no scaling, the Y axis flipped.
FlipY == [a |-> 1, b |-> 0, c |-> 0, d |-> -1, e |-> 0, f |-> 0]

\* A board without graphics, vias and zones.
NoGraphics ==
  /\ graphicLines = <<>>
  /\ graphicRects = <<>>
  /\ graphicPolys = <<>>
  /\ graphicTexts = <<>>
  /\ vias = <<>>
  /\ zones = <<>>

\* No call of createBoardOutline is under way.
NoChain == [orderedSegments |-> <<>>, remainingSegments |-> <<>>]

\* No call of rotationToDirection and of convertArcToPoints is made.
NoCalls ==
  /\ rotationIn = 0
  /\ arcIn = [start |-> [x |-> 0, y |-> 0], mid |-> [x |-> 0, y |-> 0],
              end |-> [x |-> 0, y |-> 0], numSegments |-> NoNum]

\* The context and the store as the converter constructs them.
InitContext ==
  /\ netNumToName = EmptyMap
  /\ footprintUuidToComponentId = EmptyMap
  /\ footprintUuidToSourceComponentId = EmptyMap
  /\ symbolUuidToComponentId = EmptyMap
  /\ source_component = <<>>
  /\ pcb_component = <<>>
  /\ source_port = <<>>
  /\ source_trace = <<>>
  /\ schematic_component = <<>>
  /\ schematic_port = <<>>
  /\ pcb_board = <<>>
  /\ pcb_silkscreen_path = <<>>
  /\ pcb_silkscreen_text = <<>>
  /\ pcb_smtpad = <<>>
  /\ pcb_plated_hole = <<>>
  /\ pcb_hole = <<>>
  /\ pcb_port = <<>>
  /\ pcb_via = <<>>
  /\ pcb_copper_pour = <<>>
  /\ warnings = <<>>
  /\ stats = [components |-> 0, traces |-> 0, pads |-> 0, vias |-> 0,
              copper_pours |-> 0]
  /\ processedNets = {}
  /\ processedSymbols = {}
  /\ finished = [s \in Stages |-> FALSE]
  /\ returned = [s \in Stages |-> Undefined]
  /\ fpCursor = 0
  /\ steps = [s \in Stages |-> 0]
  /\ traceNet = <<>>
  /\ directionOut = Undefined
  /\ arcOut = <<>>
  /\ segmentChain = NoChain

\* A board that holds a net list only, with or without the net table.
InitNets ==
  /\ nets \in SeqsUpTo(NetInputs, MaxNetEntries)
  /\ footprints = <<>>
  /\ symbols = <<>>
  /\ has \in {AllPresent, [AllPresent EXCEPT !.kicadPcb = FALSE],
              [AllPresent EXCEPT !.netNumToName = FALSE]}
  /\ pc = "nets"
  /\ NoGraphics
  /\ NoCalls
  /\ k2cMatPcb = FlipY
  /\ k2cMatSch = FlipY
  /\ InitContext

NextNets == CollectNetsStep
SpecNets == InitNets /\ [][NextNets]_vars

\* The shapes the identity of a footprint takes: a uuid, a tstamp only, or
\* neither.
WithUuid(u, r) == [uuid |-> u, tstamp |-> Undefined, reference |-> r]
WithTstamp(t, r) == [uuid |-> Undefined, tstamp |-> t, reference |-> r]
Anonymous == [uuid |-> Undefined, tstamp |-> Undefined, reference |-> Undefined]
\* Boards of two footprints: distinct ones, two of one identity, and one that
\* has none.
FootprintIdInputs ==
  {<<WithUuid("u1", "R1"), WithUuid("u2", "C1")>>,
   <<WithUuid("u1", "R1"), WithTstamp("u1", Undefined)>>,
   <<WithUuid("u1", "R1"), Anonymous>>}

\* The shapes the net of a pad takes: none, a net object for any net, a
\* bare number for net 0 and net 1.
PadNetInputs ==
  {[_sxNet |-> NoNet, net |-> NoNet]}
  \cup {[_sxNet |-> NoNet, net |-> NumberNet(n)] : n \in {0, 1}}
  \cup {[_sxNet |-> ObjectNet(n, NoNum, NoNum), net |-> NoNet] : n \in NetNumbers}
PadNumberInputs == {Undefined, "1", "2"}
\* A pad of the board, with the footprint (1 or 2) that owns it.
PadInputs ==
  {[owner |-> o, number |-> q, _sxNet |-> v._sxNet, net |-> v.net] :
     o \in 1..2, q \in PadNumberInputs, v \in PadNetInputs}

\* A pad that gives its number and its net only: a plated hole at the
\* position of its footprint, without a port.
PlainPad(number, sxNet, net) ==
  [number |-> number, _sxNet |-> sxNet, net |-> net, at |-> NoPoint,
   padType |-> Undefined, shape |-> Undefined, size |-> NoPoint,
   drill |-> NoNum, layer |-> Undefined, portLayer |-> Undefined,
   primitives |-> <<>>, roundrect_rratio |-> NoNum]

\* footprint.fpPads of footprint o, from the pads of the board in order
RECURSIVE PadsOwnedBy(_, _)
PadsOwnedBy(pads, o) ==
  IF pads = <<>> THEN <<>>
  ELSE (IF Head(pads).owner = o
        THEN <<PlainPad(Head(pads).number, Head(pads)._sxNet, Head(pads).net)>>
        ELSE <<>>) \o PadsOwnedBy(Tail(pads), o)

\* A net list that names net 1 and leaves the other nets unnamed.
NamedNets ==
  <<[_id |-> 0, number |-> NoNum, ordinal |-> NoNum, _name |-> "",
     name |-> Undefined],
    [_id |-> 1, number |-> NoNum, ordinal |-> NoNum, _name |-> "VCC",
     name |-> Undefined]>>

\* A board of two footprints and their pads.
InitBoard ==
  /\ nets = NamedNets
  /\ \E ids \in FootprintIdInputs, pads \in SeqsUpTo(PadInputs, MaxPads) :
       footprints = [o \in 1..2 |->
                       [uuid |-> ids[o].uuid, tstamp |-> ids[o].tstamp,
                        reference |-> ids[o].reference, position |-> NoPoint,
                        fpPads |-> PadsOwnedBy(pads, o)]]
  /\ symbols = <<>>
  /\ has = AllPresent
  /\ pc = "nets"
  /\ NoGraphics
  /\ NoCalls
  /\ k2cMatPcb = FlipY
  /\ k2cMatSch = FlipY
  /\ InitContext

NextBoard ==
  \/ CollectNetsStep
  \/ ProcessFootprint
  \/ CollectSourceTracesStep
SpecBoard == InitBoard /\ [][NextBoard]_vars

\* Net entries that carry their number under _id, or no number.
IdNetInputs == {e \in NetInputs : e.number = NoNum /\ e.ordinal = NoNum}

\* A pad with number q on net n, given as a net object.
PadOn(q, n) == PlainPad(q, ObjectNet(n, NoNum, NoNum), NoNet)

\* Two footprints with one pad each on every net of 0..MaxNet.
RECURSIVE PadOnEachNet(_)
PadOnEachNet(n) ==
  IF n < 0 THEN <<>> ELSE PadOnEachNet(n - 1) \o <<PadOn(ToString(n), n)>>
FullBoard ==
  <<[uuid |-> "u1", tstamp |-> Undefined, reference |-> "R1",
     position |-> NoPoint, fpPads |-> PadOnEachNet(MaxNet)],
    [uuid |-> "u2", tstamp |-> Undefined, reference |-> "C1",
     position |-> NoPoint, fpPads |-> PadOnEachNet(MaxNet)]>>

\* Any net list, on a board where every net has two pads.
InitNames ==
  /\ nets \in SeqsUpTo(IdNetInputs, MaxNetEntries)
  /\ footprints = FullBoard
  /\ symbols = <<>>
  /\ has = AllPresent
  /\ pc = "nets"
  /\ NoGraphics
  /\ NoCalls
  /\ k2cMatPcb = FlipY
  /\ k2cMatSch = FlipY
  /\ InitContext

SpecNames == InitNames /\ [][NextBoard]_vars

\* The shapes a placed symbol takes: with or without a uuid, a library id and
\* a Reference property.
SymbolInputs ==
  {[uuid |-> u, libraryId |-> l, reference |-> r, at |-> NoPoint] :
     u \in {Undefined, "s1", "s2"},
     l \in {Undefined, "Device:R", "Device:C"},
     r \in {Undefined, "R1"}}

\* A sheet of symbols.
InitSheet ==
  /\ nets = <<>>
  /\ footprints = <<>>
  /\ symbols \in SeqsUpTo(SymbolInputs, MaxSymbols)
  /\ has = AllPresent
  /\ pc = "symbols"
  /\ NoGraphics
  /\ NoCalls
  /\ k2cMatPcb = FlipY
  /\ k2cMatSch = FlipY
  /\ InitContext

NextSheet == CollectLibrarySymbolsStep
SpecSheet == InitSheet /\ [][NextSheet]_vars

\* The positions of a symbol: none, or a point with a rotation of a whole
\* number of quarter turns.
SymbolPositions ==
  {NoPoint} \cup
  {[x |-> p[1], y |-> p[2], angle |-> 90 * turns] :
     p \in {<<0, 0>>, <<25400000, 12700000>>}, turns \in (-MaxTurns)..MaxTurns}

\* The transforms of a sheet: a scale of either sign, a translation.
SheetTransforms ==
  {[a |-> scale, b |-> 0, c |-> 0, d |-> -scale, e |-> t[1], f |-> t[2]] :
     scale \in ((-MaxScale)..MaxScale) \ {0}, t \in {<<0, 0>>, <<500, -7000>>}}

\* A sheet of one symbol of the library, in any position.
InitPins ==
  /\ nets = <<>>
  /\ footprints = <<>>
  /\ \E l \in {"Device:R", "Device:C", "Device:D", "Device:L"},
        r \in {Undefined, "R1"}, at \in SymbolPositions :
       symbols = <<[uuid |-> "s1", libraryId |-> l, reference |-> r, at |-> at]>>
  /\ has = AllPresent
  /\ pc = "symbols"
  /\ NoGraphics
  /\ NoCalls
  /\ k2cMatPcb = FlipY
  /\ k2cMatSch \in SheetTransforms
  /\ InitContext

SpecPins == InitPins /\ [][NextSheet]_vars

\* A call of rotationToDirection with any whole number of degrees.
InitRotation ==
  /\ nets = <<>>
  /\ footprints = <<>>
  /\ symbols = <<>>
  /\ has = AllPresent
  /\ pc = "rotationToDirection"
  /\ NoGraphics
  /\ rotationIn \in (-MaxRotation)..MaxRotation
  /\ arcIn = [start |-> [x |-> 0, y |-> 0], mid |-> [x |-> 0, y |-> 0],
              end |-> [x |-> 0, y |-> 0], numSegments |-> NoNum]
  /\ k2cMatPcb = FlipY
  /\ k2cMatSch = FlipY
  /\ InitContext

NextRotation == RotationToDirectionCall
SpecRotation == InitRotation /\ [][NextRotation]_vars

\* The points of an arc: on the grid, near each other and far apart.
ArcPoints == {[x |-> x, y |-> y] : x, y \in {0, 1, MaxArcCoord}}

\* A call of convertArcToPoints with any three points, without numSegments or
\* with one of 1..MaxSegments.
InitArc ==
  /\ nets = <<>>
  /\ footprints = <<>>
  /\ symbols = <<>>
  /\ has = AllPresent
  /\ pc = "convertArcToPoints"
  /\ NoGraphics
  /\ rotationIn = 0
  /\ arcIn \in [start : ArcPoints, mid : ArcPoints, end : ArcPoints,
                 numSegments : {NoNum} \cup 1..MaxSegments]
  /\ k2cMatPcb = FlipY
  /\ k2cMatSch = FlipY
  /\ InitContext

NextArc == ConvertArcToPointsCall
SpecArc == InitArc /\ [][NextArc]_vars

\* The transforms of a board: a scale, the Y axis flipped, a translation.
BoardTransforms ==
  {[a |-> scale, b |-> 0, c |-> 0, d |-> -scale, e |-> t[1], f |-> t[2]] :
     scale \in 1..MaxScale, t \in {<<0, 0>>, <<500, -7000>>}}

\* A line of the board on a layer.
LineOn(layer, start, end) ==
  [layer |-> layer, start |-> start, end |-> end, width |-> NoNum]

\* The four sides of the rectangle with corner (x, y), width w and height h,
\* each from one corner to the next.
RectangleSides(x, y, w, h) ==
  <<[start |-> [x |-> x, y |-> y], end |-> [x |-> x + w, y |-> y]],
    [start |-> [x |-> x + w, y |-> y], end |-> [x |-> x + w, y |-> y + h]],
    [start |-> [x |-> x + w, y |-> y + h], end |-> [x |-> x, y |-> y + h]],
    [start |-> [x |-> x, y |-> y + h], end |-> [x |-> x, y |-> y]]>>

\* The orders four lines can be given in.
Orders == {o \in [1..4 -> 1..4] : \A i, j \in 1..4 : i # j => o[i] # o[j]}

\* A board whose Edge.Cuts lines are the four sides of a rectangle, in any
\* order and each in any direction.
InitOutline ==
  /\ nets = <<>>
  /\ footprints = <<>>
  /\ symbols = <<>>
  /\ has = AllPresent
  /\ pc = "graphics"
  /\ \E corner \in {<<0, 0>>, <<-3000, 500>>}, w, h \in 1..MaxSide,
        order \in Orders, reversed \in [1..4 -> BOOLEAN] :
       LET sides == RectangleSides(corner[1], corner[2], w * PointEpsilon,
                                   h * PointEpsilon)
       IN graphicLines =
            [i \in 1..4 |->
               IF reversed[i]
               THEN LineOn("Edge.Cuts", sides[order[i]].end, sides[order[i]].start)
               ELSE LineOn("Edge.Cuts", sides[order[i]].start, sides[order[i]].end)]
  /\ graphicRects = <<>>
  /\ graphicPolys = <<>>
  /\ graphicTexts = <<>>
  /\ vias = <<>>
  /\ zones = <<>>
  /\ NoCalls
  /\ k2cMatPcb \in BoardTransforms
  /\ k2cMatSch = FlipY
  /\ InitContext

NextOutline == CollectGraphicsStep
SpecOutline == InitOutline /\ [][NextOutline]_vars

\* The points the ends of the segments of a pool are drawn from: the second
\* and the third, and the third and the fourth, are closer than PointEpsilon
\* in x and in y, the second and the fourth are not.
ChainPoints ==
  {[x |-> 0, y |-> 0], [x |-> 4000, y |-> 0], [x |-> 4500, y |-> 500],
   [x |-> 5000, y |-> 0]}

\* The Edge.Cuts lines of a pool: from a point to another point.
ChainLines ==
  {LineOn("Edge.Cuts", r[1], r[2]) :
     r \in {t \in ChainPoints \X ChainPoints : t[1] # t[2]}}

\* A scale by 2 with the Y axis flipped and a translation.
ScaledFlipY == [a |-> 2, b |-> 0, c |-> 0, d |-> -2, e |-> 500, f |-> -7000]

\* createBoardOutline is called with a pool of 1..MaxPool Edge.Cuts lines, in
\* any order and direction.
InitChain ==
  /\ nets = <<>>
  /\ footprints = <<>>
  /\ symbols = <<>>
  /\ has = AllPresent
  /\ pc = "createBoardOutline"
  /\ \E n \in 1..MaxPool : graphicLines \in [1..n -> ChainLines]
  /\ graphicRects = <<>>
  /\ graphicPolys = <<>>
  /\ graphicTexts = <<>>
  /\ vias = <<>>
  /\ zones = <<>>
  /\ NoCalls
  /\ k2cMatPcb \in {FlipY, ScaledFlipY}
  /\ k2cMatSch = FlipY
  /\ InitContext

NextChain ==
  \/ CreateBoardOutlineEnter
  \/ CreateBoardOutlineChain
  \/ CreateBoardOutlineStore
SpecChain == InitChain /\ [][NextChain]_vars

\* createBoardOutline up to the exit of its while loop.  It is one
\* synchronous call: once called it runs on.
NextChainLoop ==
  \/ CreateBoardOutlineEnter
  \/ CreateBoardOutlineChain
\* The loop does not read the transform: one is enough.
InitChainLoop == InitChain /\ k2cMatPcb = FlipY
SpecChainLoop ==
  InitChainLoop /\ [][NextChainLoop]_vars /\ WF_vars(NextChainLoop)

\* The positions of a footprint: none, or a point with a rotation of a whole
\* number of quarter turns.
FootprintPositions ==
  {NoPoint} \cup
  {[x |-> p[1], y |-> p[2], angle |-> 90 * turns] :
     p \in {<<0, 0>>, <<5000000, -5000000>>}, turns \in (-MaxTurns)..MaxTurns}

\* The offsets of a pad in its footprint: none, along X, and off both axes
\* with a rotation of its own.
PadOffsets ==
  {NoPoint, [x |-> 1000000, y |-> 0, angle |-> 0],
   [x |-> -2000000, y |-> 500000, angle |-> 90]}

\* The forms of a pad: its type, its shape and what belongs to the shape.
PadForms ==
  LET form(padType, shape, primitives, ratio) ==
        [padType |-> padType, shape |-> shape, primitives |-> primitives,
         roundrect_rratio |-> ratio]
  IN {form(Undefined, Undefined, <<>>, NoNum),
      form("thru_hole", "oval", <<>>, NoNum),
      form("thru_hole", "rect", <<>>, NoNum),
      form("thru_hole", "trapezoid", <<>>, NoNum),
      form("np_thru_hole", "circle", <<>>, NoNum),
      form("smd", "circle", <<>>, NoNum),
      form("smd", "roundrect", <<>>, 25),
      form("smd", "trapezoid", <<>>, NoNum),
      form("smd", "custom", <<>>, NoNum),
      form("smd", "custom",
           <<[x |-> 0, y |-> 0], [x |-> 1000, y |-> 0], [x |-> 0, y |-> 1000]>>,
           NoNum)}

\* A board of one footprint with one pad, in any position and of any form.
InitPads ==
  /\ nets = <<>>
  /\ \E position \in FootprintPositions, at \in PadOffsets, form \in PadForms,
        number \in {Undefined, "1"}, portLayer \in {Undefined, "top"},
        size \in {NoPoint, [x |-> 2000000, y |-> 1000000]} :
       footprints =
         <<[uuid |-> "u1", tstamp |-> Undefined, reference |-> "R1",
            position |-> position,
            fpPads |-> <<[number |-> number, _sxNet |-> NoNet, net |-> NoNet,
                          at |-> at, padType |-> form.padType,
                          shape |-> form.shape, size |-> size, drill |-> NoNum,
                          layer |-> "top", portLayer |-> portLayer,
                          primitives |-> form.primitives,
                          roundrect_rratio |-> form.roundrect_rratio]>>]>>
  /\ symbols = <<>>
  /\ has = AllPresent
  /\ pc = "footprints"
  /\ NoGraphics
  /\ NoCalls
  /\ k2cMatPcb \in BoardTransforms
  /\ k2cMatSch = FlipY
  /\ InitContext

NextPads == ProcessFootprint
SpecPads == InitPads /\ [][NextPads]_vars

\* A pad of a board with ports, with the footprint (1 or 2) that owns it: its
\* number, its net and whether it gets a port.
PortPadInputs ==
  {[owner |-> o, number |-> q, net |-> n, portLayer |-> l] :
     o \in 1..2, q \in PadNumberInputs,
     n \in {NoNet, ObjectNet(1, NoNum, NoNum)}, l \in {Undefined, "top"}}

\* footprint.fpPads of footprint o, from the pads of a board with ports
RECURSIVE PortPadsOwnedBy(_, _)
PortPadsOwnedBy(pads, o) ==
  IF pads = <<>> THEN <<>>
  ELSE (IF Head(pads).owner = o
        THEN <<[PlainPad(Head(pads).number, Head(pads).net, NoNet)
                  EXCEPT !.padType = "smd", !.layer = "top",
                         !.portLayer = Head(pads).portLayer]>>
        ELSE <<>>) \o PortPadsOwnedBy(Tail(pads), o)

\* A board of two footprints and their surface-mounted pads.
InitPorts ==
  /\ nets = NamedNets
  /\ \E ids \in FootprintIdInputs, pads \in SeqsUpTo(PortPadInputs, MaxPads) :
       footprints = [o \in 1..2 |->
                       [uuid |-> ids[o].uuid, tstamp |-> ids[o].tstamp,
                        reference |-> ids[o].reference, position |-> NoPoint,
                        fpPads |-> PortPadsOwnedBy(pads, o)]]
  /\ symbols = <<>>
  /\ has = AllPresent
  /\ pc = "nets"
  /\ NoGraphics
  /\ NoCalls
  /\ k2cMatPcb = FlipY
  /\ k2cMatSch = FlipY
  /\ InitContext

SpecPorts == InitPorts /\ [][NextBoard]_vars

\* The lines a board of the model draws its graphicLines from: two Edge.Cuts
\* lines that meet, one without a start, two silkscreen lines and a copper
\* line.
GraphicLineInputs ==
  {LineOn("Edge.Cuts", [x |-> 0, y |-> 0], [x |-> 4000, y |-> 0]),
   LineOn("Edge.Cuts", [x |-> 4000, y |-> 2000], [x |-> 4000, y |-> 0]),
   LineOn("Edge.Cuts", NoPoint, [x |-> 4000, y |-> 2000]),
   [layer |-> "F.SilkS", start |-> [x |-> 0, y |-> 0],
    end |-> [x |-> 4000, y |-> 2000], width |-> 100000],
   LineOn("B.SilkS", NoPoint, [x |-> 0, y |-> 2000]),
   LineOn("F.Cu", [x |-> 0, y |-> 0], [x |-> 4000, y |-> 0])}

\* The gr_rect lists of the model.
GraphicRectInputs ==
  {<<>>,
   <<[_sxStart |-> [x |-> 0, y |-> 0], _sxEnd |-> [x |-> 4000, y |-> 2000],
      _sxLayer |-> "F.Cu", _sxFill |-> "isFilled"]>>,
   <<[_sxStart |-> NoPoint, _sxEnd |-> [x |-> 4000, y |-> 2000],
      _sxLayer |-> "B.Cu", _sxFill |-> "fill yes"]>>,
   <<[_sxStart |-> [x |-> 0, y |-> 0], _sxEnd |-> [x |-> 4000, y |-> 2000],
      _sxLayer |-> "F.Cu", _sxFill |-> Undefined],
     [_sxStart |-> [x |-> 0, y |-> 0], _sxEnd |-> [x |-> 4000, y |-> 2000],
      _sxLayer |-> "F.SilkS", _sxFill |-> "isFilled"]>>}

\* The gr_poly lists of the model: a filled triangle, a filled polygon with an
\* arc, and polygons that are not filled, not on copper or have two points.
GraphicPolyInputs ==
  LET xy(x, y) == [token |-> "xy", x |-> x, y |-> y]
      arc == [token |-> "arc", _sxStart |-> [x |-> 0, y |-> 0],
              _sxMid |-> [x |-> 10, y |-> 10],
              _sxEnd |-> [x |-> 20, y |-> 0]]
  IN {<<>>,
      <<[_sxLayer |-> "F.Cu", _sxFill |-> TRUE,
         _sxPts |-> <<xy(0, 0), xy(4000, 0), xy(4000, 2000)>>]>>,
      <<[_sxLayer |-> "B.Cu", _sxFill |-> TRUE,
         _sxPts |-> <<arc, xy(10, -10)>>]>>,
      <<[_sxLayer |-> "F.Cu", _sxFill |-> FALSE,
         _sxPts |-> <<xy(0, 0), xy(4000, 0), xy(4000, 2000)>>],
        [_sxLayer |-> "F.SilkS", _sxFill |-> TRUE,
         _sxPts |-> <<xy(0, 0), xy(4000, 0), xy(4000, 2000)>>],
        [_sxLayer |-> "F.Cu", _sxFill |-> TRUE,
         _sxPts |-> <<xy(0, 0), xy(4000, 0)>>]>>}

\* The gr_text lists of the model.
GraphicTextInputs ==
  {<<>>,
   <<[layer |-> "F.SilkS", at |-> [x |-> 4000, y |-> 2000], text |-> "REF",
      size |-> 2000000]>>,
   <<[layer |-> "Edge.Cuts", at |-> [x |-> 0, y |-> 0], text |-> "REF",
      size |-> NoNum],
     [layer |-> "B.Fab", at |-> NoPoint, text |-> Undefined, size |-> NoNum]>>}

\* A board with graphics and neither nets nor footprints.
InitGraphics ==
  /\ nets = <<>>
  /\ footprints = <<>>
  /\ symbols = <<>>
  /\ has = AllPresent
  /\ pc = "graphics"
  /\ \E n \in 0..2 : graphicLines \in [1..n -> GraphicLineInputs]
  /\ graphicRects \in GraphicRectInputs
  /\ graphicPolys \in GraphicPolyInputs
  /\ graphicTexts \in GraphicTextInputs
  /\ vias = <<>>
  /\ zones = <<>>
  /\ NoCalls
  /\ k2cMatPcb \in BoardTransforms
  /\ k2cMatSch = FlipY
  /\ InitContext

NextGraphics == CollectGraphicsStep
SpecGraphics == InitGraphics /\ [][NextGraphics]_vars

\* The via lists of the model: vias through the board, on one layer, and
\* without layers, position, size or drill.
ViaInputs ==
  LET via(at, size, drill, given, names) ==
        [at |-> at, size |-> size, drill |-> drill, net |-> 1,
         layers |-> [given |-> given, names |-> names]]
  IN {<<via([x |-> 4000, y |-> 2000], 600000, 300000, TRUE, <<"F.Cu", "B.Cu">>)>>,
      <<via(NoPoint, NoNum, NoNum, FALSE, <<>>),
        via([x |-> 0, y |-> 0], 600000, NoNum, TRUE, <<"B.Cu">>)>>,
      <<via([x |-> 4000, y |-> 2000], NoNum, 300000, TRUE, <<>>),
        via([x |-> 0, y |-> 0], 600000, 300000, TRUE, <<"B.Cu", "F.Cu">>)>>}

\* The zone lists of the model: zones with filled polygons, with a main
\* polygon only, filled without any polygon, not filled, and without children.
ZoneInputs ==
  LET triangle == <<[x |-> 0, y |-> 0], [x |-> 4000, y |-> 0],
                    [x |-> 4000, y |-> 2000]>>
      zone(fill, filled, polygon, net, name, layer) ==
        [_rawChildren |->
           [given |-> TRUE, fill |-> fill, filled_polygon |-> filled,
            polygon |-> polygon, net |-> net, net_name |-> name,
            layer |-> layer]]
      bare == [_rawChildren |->
                 [given |-> FALSE, fill |-> Undefined, filled_polygon |-> <<>>,
                  polygon |-> <<>>, net |-> NoNum, net_name |-> Undefined,
                  layer |-> Undefined]]
  IN {<<zone("yes", <<triangle, <<>>, triangle>>, <<>>, 1, "VCC", "F.Cu")>>,
      <<zone("yes", <<>>, triangle, 2, "GND", "B.Cu"),
        zone("yes", <<>>, <<>>, NoNum, Undefined, Undefined)>>,
      <<zone("no", <<>>, triangle, 1, Undefined, "F.Cu"),
        bare,
        zone(Undefined, <<triangle>>, <<>>, NoNum, Undefined, "B.Cu")>>}

\* The members of the context that are there, in every combination.
ContextInputs ==
  [{"kicadPcb", "netNumToName", "k2cMatPcb", "kicadSch", "k2cMatSch"} -> BOOLEAN]

\* A design with nets, footprints, graphics, vias, zones and a symbol, in a
\* context that lacks any of its members, before any one pass.  A board that
\* is not there has no footprints to call processFootprint with.
InitPasses ==
  /\ has \in ContextInputs
  /\ pc \in {"nets", "graphics", "vias", "zones", "symbols"}
  /\ nets = NamedNets
  /\ footprints = IF has.kicadPcb THEN FullBoard ELSE <<>>
  /\ symbols = <<[uuid |-> "s1", libraryId |-> "Device:R", reference |-> "R1",
                  at |-> NoPoint]>>
  /\ graphicLines =
       <<LineOn("Edge.Cuts", [x |-> 0, y |-> 0], [x |-> 4000, y |-> 0]),
         LineOn("F.SilkS", [x |-> 0, y |-> 0], [x |-> 4000, y |-> 2000])>>
  /\ graphicRects =
       <<[_sxStart |-> [x |-> 0, y |-> 0], _sxEnd |-> [x |-> 4000, y |-> 2000],
          _sxLayer |-> "F.Cu", _sxFill |-> "isFilled"]>>
  /\ graphicPolys = <<>>
  /\ graphicTexts =
       <<[layer |-> "F.SilkS", at |-> [x |-> 4000, y |-> 2000], text |-> "REF",
          size |-> 2000000]>>
  /\ vias \in ViaInputs
  /\ zones \in ZoneInputs
  /\ NoCalls
  /\ k2cMatPcb = FlipY
  /\ k2cMatSch = FlipY
  /\ InitContext

NextPasses ==
  \/ CollectNetsStep
  \/ ProcessFootprint
  \/ CollectSourceTracesStep
  \/ CollectGraphicsStep
  \/ CollectViasStep
  \/ CollectZonesStep
  \/ CollectLibrarySymbolsStep
SpecPasses == InitPasses /\ [][NextPasses]_vars

----------------------------------------------------------------------------
(* What the input says, read off the parsed tree directly. *)

\* The net a pad declares: the number it gives, or the _id of the net object
\* it gives, NoNum when it gives neither.
DeclaredNet(pad) ==
  LET v == IF pad._sxNet.kind # "undefined" THEN pad._sxNet ELSE pad.net
  IN IF v.kind = "number" THEN v.value
     ELSE IF v.kind = "object" THEN v._id
     ELSE NoNum

\* The identity a footprint carries, Undefined when it carries none.
DeclaredUuid(footprint) ==
  IF footprint.uuid # Undefined THEN footprint.uuid ELSE footprint.tstamp

\* The pads of the board, as <<footprint index, pad index>>.
BoardPads ==
  UNION {{<<o, j>> : j \in 1..Len(footprints[o].fpPads)} :
           o \in 1..Len(footprints)}
PadAt(op) == footprints[op[1]].fpPads[op[2]]

\* The numbered pads of registered footprints.
RegisteredPads ==
  {op \in BoardPads :
     /\ DeclaredUuid(footprints[op[1]]) \in DOMAIN footprintUuidToComponentId
     /\ PadAt(op).number # Undefined}

\* The registered numbered pads that reference net n.
PadsOnNet(n) == {op \in RegisteredPads : DeclaredNet(PadAt(op)) = n}

\* The non-zero nets the registered numbered pads reference.
ReferencedNets ==
  {DeclaredNet(PadAt(op)) : op \in RegisteredPads} \ {NoNum, 0}

\* The source_trace records created for net n.
TracesOfNet(n) == {i \in 1..Len(source_trace) : traceNet[i] = n}

\* The trace pass has run on a board with a net table.
TracesRan == steps.traces >= 1 /\ has.kicadPcb /\ has.netNumToName

\* The endpoint identifier of a registered pad.
EndpointOf(op) ==
  SourcePortIdOf(footprintUuidToComponentId[DeclaredUuid(footprints[op[1]])],
                 PadAt(op).number)

----------------------------------------------------------------------------
(* Claims *)

\* C1: after CollectSourceTracesStage.step, a non-zero net that exactly one
\* numbered pad of the registered footprints references has no source_trace,
\* and a net that k >= 2 such pads reference has exactly one source_trace,
\* whose connected_source_port_ids has k entries.
C1_OneTracePerNet ==
  TracesRan =>
    \A n \in ReferencedNets :
      LET k == Cardinality(PadsOnNet(n))
      IN /\ k < 2 => TracesOfNet(n) = {}
         /\ k >= 2 =>
              /\ Cardinality(TracesOfNet(n)) = 1
              /\ \A i \in TracesOfNet(n) :
                   Len(source_trace[i].connected_source_port_ids) = k

\* C1 witness: the pass has run on a board where net 1 has two pads, one on
\* each footprint, and the store holds the one trace of net 1.
C1_Witness ==
  /\ TracesRan
  /\ \E a, b \in PadsOnNet(1) : a[1] # b[1]
  /\ Cardinality(PadsOnNet(1)) = 2
  /\ Len(source_trace) = 1
  /\ traceNet = <<1>>

\* No two footprints of the board carry the same identity.
DistinctFootprints ==
  \A a, b \in 1..Len(footprints) :
    a # b /\ DeclaredUuid(footprints[a]) # Undefined
      => DeclaredUuid(footprints[a]) # DeclaredUuid(footprints[b])

\* C2: every source_trace references at least two endpoints and never the
\* same source_port_id twice, stated for boards whose footprints carry
\* distinct identities.
C2_DistinctEndpoints ==
  DistinctFootprints =>
  \A i \in 1..Len(source_trace) :
    LET ids == source_trace[i].connected_source_port_ids
    IN /\ Len(ids) >= 2
       /\ \A a, b \in 1..Len(ids) : a # b => ids[a] # ids[b]

Processed == 1..fpCursor

\* The identities of the footprints processed so far.
ProcessedUuids ==
  {DeclaredUuid(footprints[o]) : o \in Processed} \ {Undefined}

\* C8: however often processFootprint is called for footprints of one uuid (or
\* tstamp), the store holds one pcb_component and one source_component per
\* uuid.
C8_OneComponentPerUuid ==
  has.k2cMatPcb =>
    /\ Len(pcb_component) = Cardinality(ProcessedUuids)
    /\ Len(source_component) = Cardinality(ProcessedUuids)

\* A table keeps the value of every key it holds.
KeepsValues(m, n) == \A k \in DOMAIN m : k \in DOMAIN n /\ n[k] = m[k]

\* C10: in footprintUuidToComponentId, footprintUuidToSourceComponentId and
\* symbolUuidToComponentId a key that has a value keeps it for the rest of the
\* run.
C10_WriteOnce ==
  [][/\ KeepsValues(footprintUuidToComponentId, footprintUuidToComponentId')
     /\ KeepsValues(footprintUuidToSourceComponentId,
                    footprintUuidToSourceComponentId')
     /\ KeepsValues(symbolUuidToComponentId, symbolUuidToComponentId')]_vars

----------------------------------------------------------------------------
(* Claims on the net table *)

\* The id a net entry carries, NoNum when it carries none.
ListedId(net) ==
  IF net._id # NoNum THEN net._id
  ELSE IF net.number # NoNum THEN net.number
  ELSE net.ordinal

\* The name a net entry carries, Undefined when it carries none.
SourceName(net) == IF net._name # Undefined THEN net._name ELSE net.name

\* CollectNetsStage.step has run on a board with a net table.
NetsRan == steps.nets >= 1 /\ has.kicadPcb /\ has.netNumToName

\* The entries of the net list carry pairwise distinct non-zero ids.
DistinctNonZeroIds ==
  /\ \A i \in 1..Len(nets) : ListedId(nets[i]) \notin {NoNum, 0}
  /\ \A i, j \in 1..Len(nets) :
       i # j => ListedId(nets[i]) # ListedId(nets[j])

\* C4: after CollectNetsStage.step on a net list with pairwise distinct
\* non-zero ids, netNumToName maps every listed id n to the name the entry
\* carries, and to "Net-<n>" when the entry carries none.
C4_NamePreferred ==
  (NetsRan /\ DistinctNonZeroIds) =>
    \A i \in 1..Len(nets) :
      LET n == ListedId(nets[i])
      IN /\ n \in DOMAIN netNumToName
         /\ netNumToName[n] =
              IF SourceName(nets[i]) # Undefined THEN SourceName(nets[i])
              ELSE "Net-" \o ToString(n)

\* C4 witness: the step has run on a list of two distinct non-zero nets, one
\* with the empty string for a name and one with no name.
C4_Witness ==
  /\ NetsRan
  /\ DistinctNonZeroIds
  /\ Len(nets) = 2
  /\ SourceName(nets[1]) = ""
  /\ SourceName(nets[2]) = Undefined
  /\ netNumToName[ListedId(nets[2])] = "Net-" \o ToString(ListedId(nets[2]))

\* The entries of the net list that stand for net 0: id 0, or no id.
ZeroEntries == {i \in 1..Len(nets) : ListedId(nets[i]) \in {NoNum, 0}}

\* C5, as claimed: after CollectNetsStage.step netNumToName maps net 0 to the
\* empty string, for every net list.
C5_ZeroAlwaysEmpty ==
  NetsRan => 0 \in DOMAIN netNumToName /\ netNumToName[0] = ""

\* C5, amended: after CollectNetsStage.step netNumToName maps net 0 to the
\* empty string when no entry of the list stands for net 0; otherwise to the
\* name of the last entry that does, "Net-0" when that entry has no name.
C5_ZeroPlaceholder ==
  NetsRan =>
    /\ 0 \in DOMAIN netNumToName
    /\ netNumToName[0] =
         IF ZeroEntries = {} THEN ""
         ELSE LET last == CHOOSE i \in ZeroEntries : \A j \in ZeroEntries : j <= i
              IN IF SourceName(nets[last]) # Undefined
                 THEN SourceName(nets[last])
                 ELSE "Net-0"

\* C5 witness: the step has run on a non-empty list with no entry for net 0,
\* and net 0 maps to the empty string.
C5_Witness ==
  /\ NetsRan
  /\ nets # <<>>
  /\ ZeroEntries = {}
  /\ netNumToName[0] = ""

----------------------------------------------------------------------------
(* Claims on trace names *)

\* C6, as claimed: every source_trace of net n carries the name netNumToName
\* holds for n as its display_name.
C6_DisplayNameIsStoredName ==
  \A i \in 1..Len(source_trace) :
    traceNet[i] \in DOMAIN netNumToName
      => source_trace[i].display_name = netNumToName[traceNet[i]]

\* C6, amended: every source_trace of net n carries the name netNumToName
\* holds for n when that name is not empty, and "Net-<n>" when the name is
\* empty or the table has no entry for n.
C6_DisplayNameOrSynthesized ==
  \A i \in 1..Len(source_trace) :
    LET n == traceNet[i]
    IN source_trace[i].display_name =
         IF n \in DOMAIN netNumToName /\ netNumToName[n] # ""
         THEN netNumToName[n]
         ELSE "Net-" \o ToString(n)

\* C6 witness: the store holds the traces of net 1 and net 2, one under the
\* name of the net list and one under the name synthesized by the net pass.
C6_Witness ==
  /\ Len(source_trace) = 2
  /\ \E i \in 1..2 : /\ traceNet[i] = 1
                     /\ 1 \in DOMAIN netNumToName
                     /\ netNumToName[1] = "GND"
                     /\ source_trace[i].display_name = "GND"
  /\ \E i \in 1..2 : /\ traceNet[i] = 2
                     /\ 2 \in DOMAIN netNumToName
                     /\ source_trace[i].display_name = "Net-2"

----------------------------------------------------------------------------
(* Claims on symbols *)

\* The uuids of the symbols of the sheet.
SymbolUuids == {symbols[i].uuid : i \in 1..Len(symbols)} \ {Undefined}

\* The library ids of the symbols that have a uuid.
PlacedLibIds ==
  {symbols[i].libraryId :
     i \in {j \in 1..Len(symbols) : symbols[j].uuid # Undefined}} \ {Undefined}

\* CollectLibrarySymbolsStage.step has run on a sheet with a transform.
SymbolsRan == steps.symbols >= 1 /\ has.kicadSch /\ has.k2cMatSch

\* C7: when the symbol list holds a uuid more than once, or step() runs more
\* than once on the stage, the store holds one schematic_component per
\* distinct uuid: as many records as uuids, and symbolUuidToComponentId maps
\* the uuids to distinct records.
C7_OneComponentPerSymbol ==
  /\ ~SymbolsRan => schematic_component = <<>>
  /\ SymbolsRan =>
       /\ Len(schematic_component) = Cardinality(SymbolUuids)
       /\ DOMAIN symbolUuidToComponentId = SymbolUuids
       /\ \A u, v \in SymbolUuids :
            u # v => symbolUuidToComponentId[u] # symbolUuidToComponentId[v]
       /\ \A u \in SymbolUuids :
            \E i \in 1..Len(schematic_component) :
              schematic_component[i].schematic_component_id
                = symbolUuidToComponentId[u]

\* C7 witness: step() has run twice on a sheet that lists one uuid twice, and
\* the store holds one schematic_component.
C7_Witness ==
  /\ steps.symbols = 2
  /\ Len(symbols) = 2
  /\ symbols[1].uuid = "s1"
  /\ symbols[2].uuid = "s1"
  /\ Len(schematic_component) = 1

\* Every symbol of the sheet has a uuid, and no two have the same.
DistinctSymbols ==
  /\ \A i \in 1..Len(symbols) : symbols[i].uuid # Undefined
  /\ \A i, j \in 1..Len(symbols) : i # j => symbols[i].uuid # symbols[j].uuid

\* C9: on a sheet of symbols of different uuids, the store holds one
\* source_component for each library id, also for one that several symbols
\* share.
C9_OneSourcePerLibrary ==
  (SymbolsRan /\ DistinctSymbols) =>
    \A l \in PlacedLibIds :
      Cardinality({i \in 1..Len(source_component) :
                     source_component[i].name = l}) = 1

----------------------------------------------------------------------------
(* Claims on rotationToDirection *)

\* The direction of an angle of 0..359 degrees, by the table of quadrants.
QuadrantOf(angle) ==
  CASE angle \in 315..359 \cup 0..44 -> "up"
    [] angle \in 45..134 -> "right"
    [] angle \in 135..224 -> "down"
    [] angle \in 225..314 -> "left"

\* C12: for every whole rotation, negative ones included, the direction
\* rotationToDirection returns is the quadrant of the rotation reduced into
\* 0..359, and it is the direction of the rotation plus any number of whole
\* turns.
C12_QuadrantOfReducedRotation ==
  pc = "returned" =>
    /\ directionOut = QuadrantOf(rotationIn % 360)
    /\ \A k \in (-MaxTurns)..MaxTurns :
         rotationToDirection(rotationIn + 360 * k) = directionOut

\* C12 witness: the call has returned "left" for a rotation of -90 degrees.
C12_Witness ==
  /\ pc = "returned"
  /\ rotationIn = -90
  /\ directionOut = "left"

----------------------------------------------------------------------------
(* Claims on convertArcToPoints *)

\* Twice the signed area of the triangle start, mid, end, in squares of the
\* grid unit: 0 when the three points are on one line or coincide.
Cross(a) ==
  (a.mid.x - a.start.x) * (a.end.y - a.start.y)
    - (a.mid.y - a.start.y) * (a.end.x - a.start.x)

\* The circumcircle determinant of the three points is below 1e-10 in
\* magnitude: four times the area of the triangle is below 100 squares of the
\* grid unit.
Collinear(a) == 2 * Cross(a) > -100 /\ 2 * Cross(a) < 100

\* The elements of arcOut that are points of the input, not samples.
IsSample(p) == "t" \in DOMAIN p

\* C13: for start, mid and end with a circumcircle determinant below 1e-10 in
\* magnitude, on one line and coincident points included, convertArcToPoints
\* returns the two points start and end, and no sample.
C13_CollinearGivesChord ==
  (pc = "returned" /\ Collinear(arcIn)) => arcOut = <<arcIn.start, arcIn.end>>

\* C13 witness: the call has returned start and end for three different
\* points that are not on one line and have a determinant below the bound.
C13_Witness ==
  /\ pc = "returned"
  /\ Cross(arcIn) # 0
  /\ Collinear(arcIn)
  /\ arcOut = <<arcIn.start, arcIn.end>>

\* C14: the last element of what convertArcToPoints returns is the end point
\* of the input, for every input.
C14_LastIsEnd ==
  pc = "returned" => (arcOut # <<>> /\ arcOut[Len(arcOut)] = arcIn.end)

\* C14 witness: the call has returned samples and then end, for points that
\* are not collinear.
C14_Witness ==
  /\ pc = "returned"
  /\ ~Collinear(arcIn)
  /\ Len(arcOut) > 2
  /\ IsSample(arcOut[1])
  /\ arcOut[Len(arcOut)] = arcIn.end

\* C20, as claimed: for points that are not collinear and tessellation count
\* n, convertArcToPoints returns n samples and then end, n + 1 points, and
\* not start.
C20_CountPlusOne ==
  (pc = "returned" /\ ~Collinear(arcIn)) =>
    LET n == SegmentsOf(arcIn.numSegments)
    IN /\ Len(arcOut) = n + 1
       /\ \A k \in 1..n : IsSample(arcOut[k])
       /\ arcOut[n + 1] = arcIn.end
       /\ \A k \in 1..Len(arcOut) : arcOut[k] # arcIn.start

\* C20, amended: for points that are not collinear and tessellation count
\* n >= 1, convertArcToPoints returns n - 1 samples, those of rounds 1 to
\* n - 1 in order, and then end: n points, and not start.
C20_CountSegments ==
  (pc = "returned" /\ ~Collinear(arcIn)) =>
    LET n == SegmentsOf(arcIn.numSegments)
    IN /\ Len(arcOut) = n
       /\ \A k \in 1..(n - 1) : IsSample(arcOut[k]) /\ arcOut[k].t = <<k, n>>
       /\ arcOut[n] = arcIn.end
       /\ \A k \in 1..Len(arcOut) : arcOut[k] # arcIn.start

\* C20 witness: a call without numSegments has returned 7 samples and end for
\* points that are not collinear.
C20_Witness ==
  /\ pc = "returned"
  /\ ~Collinear(arcIn)
  /\ arcIn.numSegments = NoNum
  /\ Len(arcOut) = 8
  /\ \A k \in 1..7 : IsSample(arcOut[k])
  /\ arcOut[8] = arcIn.end

----------------------------------------------------------------------------
(* Claims on the board outline *)

\* The end points of the lines of the board.
LineEnds ==
  {graphicLines[i].start : i \in 1..Len(graphicLines)}
    \cup {graphicLines[i].end : i \in 1..Len(graphicLines)}

\* The width and the height of the box around the end points of the lines.
SourceWidth ==
  CHOOSE w \in {p.x - q.x : p, q \in LineEnds} :
    \A p, q \in LineEnds : p.x - q.x <= w
SourceHeight ==
  CHOOSE h \in {p.y - q.y : p, q \in LineEnds} :
    \A p, q \in LineEnds : p.y - q.y <= h

\* The image of a point of the board under the transform of the board.
ImageOf(p) ==
  [x |-> k2cMatPcb.a * p.x + k2cMatPcb.e, y |-> k2cMatPcb.d * p.y + k2cMatPcb.f]

\* CollectGraphicsStage.step has run on a board with a transform.
GraphicsRan == steps.graphics >= 1 /\ has.kicadPcb /\ has.k2cMatPcb

\* C15: for the four sides of a rectangle given in any order and each in any
\* direction, the store holds one board after CollectGraphicsStage.step; its
\* outline has 4 or 5 points, among them the image of every corner, and its
\* width and height are those of the rectangle times the scale of the
\* transform.
C15_RectangleOutline ==
  GraphicsRan =>
    /\ Len(pcb_board) = 1
    /\ Len(pcb_board[1].outline) \in {4, 5}
    /\ \A p \in LineEnds :
         \E k \in 1..Len(pcb_board[1].outline) :
           pcb_board[1].outline[k] = ImageOf(p)
    /\ pcb_board[1].width = Abs(k2cMatPcb.a) * SourceWidth
    /\ pcb_board[1].height = Abs(k2cMatPcb.a) * SourceHeight

\* C15 witness: the step has run on a rectangle twice as wide as high whose
\* sides are given in the order 3, 1, 4, 2 with the first two reversed, under
\* a transform that scales by 2, and the outline has 4 points.
C15_Witness ==
  /\ GraphicsRan
  /\ k2cMatPcb.a = 2
  /\ LET sides == RectangleSides(-3000, 500, 2 * PointEpsilon, PointEpsilon)
     IN graphicLines =
          <<LineOn("Edge.Cuts", sides[3].end, sides[3].start),
            LineOn("Edge.Cuts", sides[1].end, sides[1].start),
            LineOn("Edge.Cuts", sides[4].start, sides[4].end),
            LineOn("Edge.Cuts", sides[2].start, sides[2].end)>>
  /\ Len(pcb_board) = 1
  /\ Len(pcb_board[1].outline) = 4
  /\ pcb_board[1].width = 4 * PointEpsilon
  /\ pcb_board[1].height = 2 * PointEpsilon

\* C16: the store never holds more than one pcb_board record, and a step
\* taken while it holds one keeps that record, with its id, as the only one
\* and gives it the outline of the Edge.Cuts lines, whose first point is the
\* image of the start of the first of them, and the width and height of the
\* box around that outline.
C16_OneBoardUpdatedInPlace ==
  /\ [](Len(pcb_board) <= 1)
  /\ [][pcb_board # <<>> =>
         /\ Len(pcb_board') = 1
         /\ pcb_board'[1].pcb_board_id = pcb_board[1].pcb_board_id
         /\ LET first == CHOOSE i \in 1..Len(graphicLines) :
                           /\ graphicLines[i].layer = "Edge.Cuts"
                           /\ \A j \in 1..(i - 1) :
                                graphicLines[j].layer # "Edge.Cuts"
                outline == pcb_board'[1].outline
                xs == {outline[k].x : k \in 1..Len(outline)}
                ys == {outline[k].y : k \in 1..Len(outline)}
            IN /\ outline[1] = ImageOf(PointOrOrigin(graphicLines[first].start))
               /\ \E lo, hi \in xs :
                    /\ pcb_board'[1].width = hi - lo
                    /\ \A x \in xs : lo <= x /\ x <= hi
               /\ \E lo, hi \in ys :
                    /\ pcb_board'[1].height = hi - lo
                    /\ \A y \in ys : lo <= y /\ y <= hi]_vars

\* C16 witness: CollectGraphicsStage.step has run twice on a board with two
\* Edge.Cuts lines, and the store holds one pcb_board, the first generated.
C16_Witness ==
  /\ steps.graphics = 2
  /\ has.kicadPcb /\ has.k2cMatPcb
  /\ Len(graphicLines) = 2
  /\ \A i \in 1..2 : graphicLines[i].layer = "Edge.Cuts"
  /\ Len(pcb_board) = 1
  /\ pcb_board[1].pcb_board_id = "pcb_board_0"
  /\ Len(pcb_board[1].outline) = 3

----------------------------------------------------------------------------
(* Claims on the position of a pad *)

\* The footprint of SpecPads has been processed.
PadsRan == fpCursor = 1 /\ has.k2cMatPcb /\ Len(pcb_component) = 1

\* The records processPad has inserted that have a position.
PlacedPadRecords ==
  {pcb_smtpad[i] : i \in {j \in 1..Len(pcb_smtpad) : "x" \in DOMAIN pcb_smtpad[j]}}
    \cup {pcb_plated_hole[i] : i \in 1..Len(pcb_plated_hole)}
    \cup {pcb_hole[i] : i \in 1..Len(pcb_hole)}
    \cup {pcb_port[i] : i \in 1..Len(pcb_port)}

\* The offset of the one pad of the board in its footprint, and the rotation
\* of the footprint.
LocalOffset ==
  LET at == footprints[1].fpPads[1].at
  IN IF at = NoPoint THEN [x |-> 0, y |-> 0] ELSE [x |-> at.x, y |-> at.y]
ComponentRotation ==
  IF footprints[1].position = NoPoint THEN 0 ELSE footprints[1].position.angle

\* The position of a record less the center of the component.
EmittedOffset(r) ==
  [x |-> r.x - pcb_component[1].center.x, y |-> r.y - pcb_component[1].center.y]

----------------------------------------------------------------------------
(* Claims on the endpoint identifier of a pad *)

\* The ids of the components in the store, and the numbers of the pads of the
\* board.
ComponentIds == {pcb_component[i].pcb_component_id : i \in 1..Len(pcb_component)}
BoardPadNumbers ==
  UNION {{footprints[o].fpPads[k].number : k \in 1..Len(footprints[o].fpPads)} :
           o \in 1..Len(footprints)} \ {Undefined}

\* The identifier of the endpoint of pad q of component c.
EndpointId(c, q) == c \o "_port_" \o q

\* C19: the source_port_id of every pcb_port is "<its component>_port_<n>"
\* and that of every source_port is "<a component>_port_<n>", n the number of
\* a pad of the board; two pairs of a component and a pad number that differ
\* have identifiers that differ; and no two source_port records have one
\* identifier, however often CollectSourceTracesStage.step has looked it up.
C19_EndpointIdOfComponentAndNumber ==
  /\ \A i \in 1..Len(pcb_port) :
       /\ pcb_port[i].pcb_component_id \in ComponentIds
       /\ \E q \in BoardPadNumbers :
            pcb_port[i].source_port_id =
              EndpointId(pcb_port[i].pcb_component_id, q)
  /\ \A i \in 1..Len(source_port) :
       \E c \in ComponentIds, q \in BoardPadNumbers :
         source_port[i].source_port_id = EndpointId(c, q)
  /\ \A c1, c2 \in ComponentIds, q1, q2 \in BoardPadNumbers :
       <<c1, q1>> # <<c2, q2>> => EndpointId(c1, q1) # EndpointId(c2, q2)
  /\ \A i, j \in 1..Len(source_port) :
       source_port[i].source_port_id = source_port[j].source_port_id => i = j

\* C19 witness: CollectSourceTracesStage.step has run twice on a board of two
\* components that have a pad 1 each, on one net and with a port: the store
\* holds the pcb_port and the one source_port of pcb_component_0_port_1 and
\* those of pcb_component_1_port_1.
C19_Witness ==
  /\ steps.traces = 2
  /\ Len(pcb_port) = 2
  /\ Len(source_port) = 2
  /\ \A c \in {"pcb_component_0", "pcb_component_1"} :
       /\ \E i \in 1..2 : pcb_port[i].source_port_id = EndpointId(c, "1")
       /\ \E i \in 1..2 : source_port[i].source_port_id = EndpointId(c, "1")

----------------------------------------------------------------------------
(* Claims on the position of a pin *)

\* The one symbol of the sheet has been processed.
PinsRan == steps.symbols >= 1 /\ has.kicadSch /\ has.k2cMatSch

\* The pins of the symbol of the sheet that have a position, in order.
PlacedPins ==
  LET Placed(pin) == pin._sxAt # NoPoint
  IN SelectSeq(PinsOf(symbols[1].libraryId), Placed)

\* The rotation of the symbol of the sheet.
SymbolRotation == IF symbols[1].at = NoPoint THEN 0 ELSE symbols[1].at.angle

\* The center of a port is, on the grid, the offset (x, y) of its pin rotated
\* by the rotation of the symbol, with Y negated, times |k2cMatSch.a|.
CenterOnGrid(k) ==
  LET x == PlacedPins[k]._sxAt.x
      y == PlacedPins[k]._sxAt.y
      scale == Abs(k2cMatSch.a)
  IN /\ schematic_port[k].center.x.val =
          scale * (x * CosDeg(SymbolRotation) - y * SinDeg(SymbolRotation))
     /\ schematic_port[k].center.y.val =
          -scale * (x * SinDeg(SymbolRotation) + y * CosDeg(SymbolRotation))

\* C17, as claimed: the center of every port is the rotated, flipped and
\* scaled offset of its pin, and exactly so at every whole number of quarter
\* turns.
C17_ExactQuarterTurns ==
  PinsRan =>
    /\ Len(schematic_port) = Len(PlacedPins)
    /\ \A k \in 1..Len(schematic_port) :
         /\ CenterOnGrid(k)
         /\ schematic_port[k].center.x.res = 0
         /\ schematic_port[k].center.y.res = 0

\* C17, amended: the center of every port is the rotated, flipped and scaled
\* offset of its pin up to what Math.cos and Math.sin are off by, and exactly
\* so for a symbol that is not rotated.
C17_RotatedFlippedScaled ==
  PinsRan =>
    /\ Len(schematic_port) = Len(PlacedPins)
    /\ \A k \in 1..Len(schematic_port) :
         /\ CenterOnGrid(k)
         /\ SymbolRotation = 0 =>
              /\ schematic_port[k].center.x.res = 0
              /\ schematic_port[k].center.y.res = 0

\* C17 witness: a symbol with rotation 90 under a transform that scales by 2
\* has a pin at (1, 0); the center of its port is (0, -2) on the grid and its
\* X is off zero by what Math.cos(Math.PI / 2) is.
C17_Witness ==
  /\ PinsRan
  /\ SymbolRotation = 90
  /\ Abs(k2cMatSch.a) = 2
  /\ Len(schematic_port) = 2
  /\ PlacedPins[1]._sxAt = [x |-> 1000000, y |-> 0]
  /\ schematic_port[1].center.x = [val |-> 0, res |-> 2000000]
  /\ schematic_port[1].center.y = [val |-> -2000000, res |-> 0]

----------------------------------------------------------------------------
(* Claims on a context that lacks a member *)

\* Nothing of the store, the lookup tables and the counters changes.
NoEffect ==
  UNCHANGED <<tables, padTables, graphicsTables, xrefs, netNumToName, stats,
              processedNets, processedSymbols>>

\* A step of stage s ends with finished = true and returns false.
Completes(s) == finished'[s] /\ returned'[s] = "false"

\* C11: a step of a pass in a context that lacks a member the pass asks for
\* (the board or the sheet, its transform, the net table) inserts no record
\* and changes no lookup table and no counter, and the step of a stage sets
\* finished and returns false: the graphics pass asks for the board and its
\* transform, the via and zone passes for these and the net table, the net
\* and trace passes for the board and the net table, the symbol pass for the
\* sheet and its transform, and processFootprint with processPad for the
\* transform of the board.
C11_AbsentPreconditionNoEffect ==
  [][/\ (steps'.graphics > steps.graphics
           /\ ~(has.kicadPcb /\ has.k2cMatPcb))
          => (NoEffect /\ Completes("graphics"))
     /\ (steps'.vias > steps.vias
           /\ ~(has.kicadPcb /\ has.k2cMatPcb /\ has.netNumToName))
          => (NoEffect /\ Completes("vias"))
     /\ (steps'.zones > steps.zones
           /\ ~(has.kicadPcb /\ has.k2cMatPcb /\ has.netNumToName))
          => (NoEffect /\ Completes("zones"))
     /\ (steps'.nets > steps.nets /\ ~(has.kicadPcb /\ has.netNumToName))
          => (NoEffect /\ Completes("nets"))
     /\ (steps'.traces > steps.traces /\ ~(has.kicadPcb /\ has.netNumToName))
          => (NoEffect /\ Completes("traces"))
     /\ (steps'.symbols > steps.symbols /\ ~(has.kicadSch /\ has.k2cMatSch))
          => (NoEffect /\ Completes("symbols"))
     /\ (fpCursor' > fpCursor /\ ~has.k2cMatPcb) => NoEffect]_vars

\* C11 witness: without the net table, processFootprint has inserted the two
\* components of the board, and CollectSourceTracesStage.step has then run,
\* set finished and returned false with no port and no trace in the store.
C11_Witness ==
  /\ ~has.netNumToName
  /\ has.kicadPcb /\ has.k2cMatPcb
  /\ Len(pcb_component) = 2
  /\ steps.nets = 1
  /\ steps.traces = 1
  /\ finished.nets /\ finished.traces
  /\ returned.traces = "false"
  /\ netNumToName = EmptyMap
  /\ source_port = <<>>
  /\ source_trace = <<>>
  /\ stats.traces = 0

----------------------------------------------------------------------------
(* Claims on the direction of a pin *)

\* The rotation of the k-th placed pin plus the rotation of its symbol,
\* brought into 0..359.
TotalRotation(k) == (AngleOf(PlacedPins[k].at) + SymbolRotation) % 360

\* C21: after the step, every pin with a position has one schematic_port,
\* whose facing_direction is the direction of the pin's own rotation plus the
\* rotation of its symbol brought into 0..359; a total of 90 faces right.
C21_DirectionOfSummedRotation ==
  PinsRan =>
    /\ Len(schematic_port) = Len(PlacedPins)
    /\ \A k \in 1..Len(schematic_port) :
         /\ schematic_port[k].facing_direction = QuadrantOf(TotalRotation(k))
         /\ TotalRotation(k) = 90
              => schematic_port[k].facing_direction = "right"

\* C21 witness: a pin turned by 270 on a symbol turned by -180 faces right.
C21_Witness ==
  /\ PinsRan
  /\ SymbolRotation = -180
  /\ \E k \in 1..Len(schematic_port) :
       /\ AngleOf(PlacedPins[k].at) = 270
       /\ schematic_port[k].facing_direction = "right"

----------------------------------------------------------------------------
(* Claims on the shape of a pad *)

\* The shapes of a pad the code knows.
RecognizedShapes == {"circle", "oval", "rect", "square", "roundrect", "custom"}

\* The shape of the one pad of the board, as processPad reads it.
BoardPadShape == PadShapeOf(footprints[1].fpPads[1])

\* C22: every record createSmdPad and createPlatedHole have inserted has a
\* shape, and for a pad of a shape outside the known ones the record is the
\* rectangular one: an smtpad of shape rect, a plated hole with a rect pad.
C22_UnknownShapeIsRect ==
  PadsRan =>
    /\ \A i \in 1..Len(pcb_smtpad) :
         /\ "shape" \in DOMAIN pcb_smtpad[i]
         /\ BoardPadShape \notin RecognizedShapes
              => pcb_smtpad[i].shape = "rect"
    /\ \A i \in 1..Len(pcb_plated_hole) :
         /\ "shape" \in DOMAIN pcb_plated_hole[i]
         /\ BoardPadShape \notin RecognizedShapes
              => /\ pcb_plated_hole[i].shape = "pill_hole_with_rect_pad"
                 /\ pcb_plated_hole[i].pad_shape = "rect"

----------------------------------------------------------------------------
(* Claims on the size of the board *)

\* The largest difference of two of the numbers, 0 when there is none.
Spread(numbers) ==
  IF numbers = {} THEN 0
  ELSE CHOOSE w \in {a - b : a, b \in numbers} :
         \A a, b \in numbers : a - b <= w

\* C23: in every state, the width of every pcb_board is the largest x less
\* the smallest x of the points of its outline and its height the largest y
\* less the smallest y (0 for an outline without points), after the step that
\* inserts the board and after a step that updates it.
C23_BoardSizeIsOutlineBox ==
  \A i \in 1..Len(pcb_board) :
    LET outline == pcb_board[i].outline
    IN /\ pcb_board[i].width =
            Spread({outline[k].x : k \in 1..Len(outline)})
       /\ pcb_board[i].height =
            Spread({outline[k].y : k \in 1..Len(outline)})

\* C23 witness: the second step has updated the board in place, and its
\* outline has three points that span a width and a height.
C23_Witness ==
  /\ steps.graphics = 2
  /\ Len(pcb_board) = 1
  /\ Len(pcb_board[1].outline) = 3
  /\ pcb_board[1].width > 0
  /\ pcb_board[1].height > 0
  /\ pcb_board[1].outline[1].y < 0

----------------------------------------------------------------------------
(* Claims on the chaining of the outline *)

\* Two points are closer than 0.001 in x and in y.
Near(p, q) ==
  /\ -PointEpsilon < p.x - q.x /\ p.x - q.x < PointEpsilon
  /\ -PointEpsilon < p.y - q.y /\ p.y - q.y < PointEpsilon

\* The pool and the chain before and after a round of the while loop.
Pool == segmentChain.remainingSegments
Ordered == segmentChain.orderedSegments
PoolAfter == segmentChain'.remainingSegments
OrderedAfter == segmentChain'.orderedSegments

\* The segments of the pool that start, and that end, where the chain ends.
ForwardMatches ==
  {i \in 1..Len(Pool) : Near(Pool[i].start, Ordered[Len(Ordered)].end)}
BackwardMatches ==
  {i \in 1..Len(Pool) : Near(Pool[i].end, Ordered[Len(Ordered)].end)}

\* The least of a non-empty set of indices.
Least(indices) == CHOOSE i \in indices : \A j \in indices : i <= j

\* The segment of the pool a round chooses.
Chosen ==
  IF ForwardMatches # {} THEN Least(ForwardMatches)
  ELSE IF BackwardMatches # {} THEN Least(BackwardMatches)
  ELSE 1

\* A round of the while loop is taken.
ChainRound == pc = "chaining" /\ Pool # <<>> /\ segmentChain' # segmentChain

\* C24: in every round of the while loop of createBoardOutline, the first
\* segment of the pool that starts where the chain ends (closer than 0.001 in
\* x and in y) is appended as it is; when there is none, the first segment
\* that ends there is appended reversed; when there is none either, the first
\* segment of the pool is appended as it is.  The chosen segment leaves the
\* pool, the rest of the pool and of the chain stay as they are.
C24_ForwardThenBackwardThenNext ==
  [][ChainRound =>
       /\ OrderedAfter =
            Append(Ordered,
                   IF ForwardMatches = {} /\ BackwardMatches # {}
                   THEN [start |-> Pool[Chosen].end, end |-> Pool[Chosen].start]
                   ELSE Pool[Chosen])
       /\ Len(PoolAfter) = Len(Pool) - 1
       /\ \A i \in 1..Len(PoolAfter) :
            PoolAfter[i] = IF i < Chosen THEN Pool[i] ELSE Pool[i + 1]]_vars

\* C24 witness: a round has passed over a segment that ends where the chain
\* ends and has appended, as it is, a later segment that starts there.
C24_Witness ==
  /\ pc = "chaining"
  /\ Len(Ordered) = 2
  /\ Len(Pool) = 1
  /\ Near(Pool[1].end, Ordered[1].end)
  /\ ~Near(Pool[1].start, Ordered[1].end)
  /\ Near(Ordered[2].start, Ordered[1].end)
  /\ Ordered[2].start # Ordered[1].end
  /\ Pool[1] = LineSegments(graphicLines)[2]
  /\ Ordered[2] = LineSegments(graphicLines)[3]

----------------------------------------------------------------------------
(* Claims on repeated steps of CollectSourceTracesStage *)

\* A step of CollectSourceTracesStage after its first.
LaterTraceStep == steps.traces >= 1 /\ steps'.traces > steps.traces

\* C25: in every state the store holds at most one source_trace for one net
\* number, and a step of CollectSourceTracesStage after the first leaves the
\* source_port and the source_trace records as the step before left them.
C25_NoNetAggregatedTwice ==
  /\ [](\A i, j \in 1..Len(source_trace) : i # j => traceNet[i] # traceNet[j])
  /\ [][LaterTraceStep =>
          /\ source_port' = source_port
          /\ source_trace' = source_trace]_vars

\* C25 witness: the stage has stepped twice on a board with two nets of two
\* pads each, and the store holds the four endpoints and one trace for each
\* of the two nets.
C25_Witness ==
  /\ steps.traces = 2
  /\ Len(source_port) = 4
  /\ Len(source_trace) = 2
  /\ \A i \in 1..2 : Len(source_trace[i].connected_source_port_ids) = 2
  /\ processedNets = {traceNet[1], traceNet[2]}
  /\ traceNet[1] # traceNet[2]

----------------------------------------------------------------------------
(* Claims on the layers of a via *)

\* The via of the input the k-th pcb_via was made from: every step of the
\* stage inserts one record for every via, in order.
ViaOfRecord(k) == vias[((k - 1) % Len(vias)) + 1]

\* C26: the pcb_via of a via that lists one layer, whichever it is, or that
\* lists none or has no layers, has the layers top and bottom, in this order.
C26_OneLayerViaSpansBoard ==
  \A k \in 1..Len(pcb_via) :
    (~ViaOfRecord(k).layers.given \/ Len(ViaOfRecord(k).layers.names) <= 1)
      => pcb_via[k].layers = <<"top", "bottom">>

----------------------------------------------------------------------------
(* Claims on the end of the chaining *)

\* The segments createBoardOutline was called with.
InputSegments == LineSegments(EdgeCutLinesOf(graphicLines))

\* The segment with its ends swapped.
Reversed(segment) == [start |-> segment.end, end |-> segment.start]

\* The ways to put n things in order.
Arrangements(n) ==
  {f \in [1..n -> 1..n] : \A i, j \in 1..n : i # j => f[i] # f[j]}

\* The chain holds every segment of the input once, as it is or reversed.
ChainHoldsInput ==
  /\ Len(Ordered) = Len(InputSegments)
  /\ \E f \in Arrangements(Len(InputSegments)) :
       \A i \in 1..Len(InputSegments) :
         Ordered[f[i]] \in {InputSegments[i], Reversed(InputSegments[i])}

\* The while loop of createBoardOutline has been left.
LoopLeft == pc = "chaining" /\ Pool = <<>>

\* C27: the while loop of createBoardOutline comes to its end for every pool:
\* every round makes the pool one segment shorter, the loop is left, and at
\* its exit the chain holds every segment of the input exactly once, as it
\* was given or reversed.
C27_ChainingEndsWithEverySegment ==
  /\ [][ChainRound => Len(PoolAfter) = Len(Pool) - 1]_vars
  /\ <>LoopLeft
  /\ [](LoopLeft => ChainHoldsInput)

\* C27 witness: the loop has ended on a pool of three segments, one of which
\* is in the chain reversed and not as it was given.
C27_Witness ==
  /\ LoopLeft
  /\ Len(Ordered) = 3
  /\ \E i \in 1..3 :
       /\ Ordered[i] \notin {InputSegments[k] : k \in 1..3}
       /\ Reversed(Ordered[i]) \in {InputSegments[k] : k \in 1..3}

----------------------------------------------------------------------------
(* Claims on the outline of an open path *)

\* The ends of the segments createBoardOutline was called with.
Vertices ==
  {InputSegments[i].start : i \in 1..Len(InputSegments)}
    \cup {InputSegments[i].end : i \in 1..Len(InputSegments)}

\* The segments of the input as pairs of ends, whatever their direction.
Edges ==
  {{InputSegments[i].start, InputSegments[i].end} : i \in 1..Len(InputSegments)}

\* The segments of the input form one open path: its vertices are apart by
\* 0.001 or more, and in some order every segment joins a vertex to the next
\* and every vertex but the last is joined to the next by one segment.
IsOpenPath ==
  /\ \A p, q \in Vertices : p # q => ~Near(p, q)
  /\ Cardinality(Vertices) = Len(InputSegments) + 1
  /\ Cardinality(Edges) = Len(InputSegments)
  /\ \E v \in [1..Cardinality(Vertices) -> Vertices] :
       /\ \A i, j \in DOMAIN v : i # j => v[i] # v[j]
       /\ Edges = {{v[i], v[i + 1]} : i \in 1..Len(InputSegments)}

\* C28: when createBoardOutline has returned from a call with the segments of
\* one open path, in any order and direction, the outline of the board holds
\* the image of every vertex of the path.
C28_OpenPathOutlineHoldsEveryVertex ==
  (pc = "returned" /\ IsOpenPath) =>
    \A p \in Vertices :
      \E k \in 1..Len(pcb_board[1].outline) :
        pcb_board[1].outline[k] = applyToPoint(k2cMatPcb, p)

----------------------------------------------------------------------------
(* Claims on the endpoint a pcb_port names *)

\* processFootprint has been called for every footprint, and
\* CollectSourceTracesStage has stepped.
BoardPassesDone == fpCursor = Len(footprints) /\ steps.traces >= 1

\* C29: once the footprints are processed and CollectSourceTracesStage has
\* stepped, the source_port_id of every pcb_port is the source_port_id of a
\* source_port of the store, whatever nets the pads are on.
C29_PortNamesExistingEndpoint ==
  BoardPassesDone =>
    \A i \in 1..Len(pcb_port) :
      \E j \in 1..Len(source_port) :
        source_port[j].source_port_id = pcb_port[i].source_port_id

----------------------------------------------------------------------------
(* Claims on the source a schematic_component names *)

\* C30: after a step of CollectLibrarySymbolsStage, the source_component_id
\* of every schematic_component is the source_component_id of a
\* source_component of the store, the ids of the source_components being
\* the ones the insert of the store has generated.
C30_ComponentNamesExistingSource ==
  steps.symbols >= 1 =>
    \A i \in 1..Len(schematic_component) :
      \E j \in 1..Len(source_component) :
        source_component[j].source_component_id =
          schematic_component[i].source_component_id

====
